---------------------------- MODULE Spec2Model ----------------------------
(***************************************************************************)
(* Model of the test-case execution engine of hwsuite/check.py:            *)
(*   - CppChecker.check_cpp and ConcurrencyManager.perform (the dispatch   *)
(*     loop, the worker threads, the admission semaphore, the outcome map  *)
(*     and its lock), specification Spec;                                  *)
(*   - TestCaseRunner.run_test_case with ScreenRunnable (one case, run     *)
(*     inside a screen session or directly), specification SpecRun, and    *)
(*     SpecRunFair with the runner's thread scheduled;                     *)
(*   - the same dispatch loop with every thread scheduled, SpecFair;       *)
(*   - StuffConfig.format_line and TestCaseRunner._check on their own,     *)
(*     SpecPure; fixture discovery, SpecDisc; hwsuite.get_config and       *)
(*     store_config, SpecConf; ScreenRunnable method by method,            *)
(*     SpecSession; main and _main, SpecMain.                              *)
(***************************************************************************)
EXTENDS Integers, Sequences, FiniteSets, TLC

(***************************************************************************)
(* Bounds of the model.                                                    *)
(***************************************************************************)
\* number of fixtures that _detect_test_cases returns for the executable
NumCases == 2
\* largest concurrency level tried
MaxLevel == 2
\* largest number of lines of an input file
MaxLines == 2
\* largest poll limit of the pre-feed output wait
MaxPollLimit == 1
\* largest length of a line given to format_line on its own
MaxLineLen == 3
\* largest length of a raw text given to _check on its own
MaxTextLen == 2
\* largest number of main.cpp files of a project
MaxSuites == 2

(***************************************************************************)
(* Values.                                                                 *)
(***************************************************************************)
\* Python's None where an int is expected (max_test_cases, returncode)
NoneInt == -1
\* Python's None where a text is expected (expected_text, actual_text)
NoneText == <<"None">>
\* no worker holds outcomes_lock
NoThread == 0

VARIABLES
    \* ---- CppChecker.check_cpp / ConcurrencyManager ----
    max_test_cases,     \* TestCasesConfig.max_test_cases (NoneInt: no limit)
    matching,           \* the fixtures TestCasesConfig.matches accepts
    timeout,            \* TRUE iff TestCasesConfig.timeout is not None
    concurrency_level,  \* CppChecker.concurrency_level
    mainPc,             \* position of check_cpp
    i,                  \* loop variable i of the dispatch loop (1-based; 0: not yet assigned)
    test_case,          \* loop variable test_case of the dispatch loop (0: not yet assigned)
    threads,            \* the list threads: per started thread, the fixture of its iteration
    joined,             \* number of threads joined so far
    exceeded,           \* the thread last logged as exceeding the timeout (NoThread: none)
    wpc,                \* position of each worker thread
    wcase,              \* parameter test_case of each worker's perform call
    wout,               \* local variable outcome of each worker's perform call
    wraised,            \* per worker: the exception its _run_test_case raised, or <<>>
    concurrer,          \* permits of the semaphore ConcurrencyManager.concurrer
    outcomes_lock,      \* holder of ConcurrencyManager.outcomes_lock
    outcomes,           \* the dict outcomes of check_cpp
    \* ---- TestCaseRunner.run_test_case / ScreenRunnable ----
    fixture,            \* the TestCase: input_file / expected_file present, exit_code
    input_lines,        \* the lines of the input file, as read_file_lines returns them
    require_screen,     \* TestCaseRunner.require_screen
    applicability,      \* ValgrindConfig.applicability
    stuff_config,       \* StuffConfig: mode, eof
    poll_limit,         \* Throttle.await.limit
    rpc,                \* position of run_test_case
    expected_text,      \* local expected_text of run_test_case
    tempdir,            \* the TemporaryDirectory of the case: "none", "exists", "removed"
    proc,               \* the subject / screen process: "none", "running", "exited"
    proc_exit,          \* the exit code the process ended with
    started_proc,       \* ScreenRunnable.started_proc is not None
    returncode,         \* started_proc.returncode as the Popen object caches it
    completed_proc,     \* ScreenRunnable.completed_proc.returncode (NoneInt: completed_proc is None)
    num_stuffs,         \* ScreenRunnable.num_stuffs
    num_polls,          \* local num_polls of LogWatcher.await_output
    li,                 \* number of input lines the feed loop has completed
    sent,               \* the screen -X stuff commands run so far: text and exit status
    pending,            \* what the try block left for after the finally clause
    exit_code,          \* local exit_code of run_test_case
    valgrind_rc,        \* exit status of the memory checker (NoneInt: not run)
    hist,               \* what has happened in the run so far (observation only)
    result,             \* how run_test_case ended
    \* ---- StuffConfig.format_line and TestCaseRunner._check on their own ----
    ppc,                \* which function is applied, and how far
    arg_mode,           \* StuffConfig.mode
    arg_line,           \* parameter line of format_line
    formatted,          \* what format_line(line) returned or raised
    reformatted,        \* what format_line returned or raised for the formatted line
    arg_expected,       \* parameter expected of _check: Result(exit_code, text)
    arg_actual,         \* parameter actual of _check: Result(exit_code, text)
    checked,            \* the TestCaseOutcome _check returned
    \* ---- _main / main ----
    mpc,                \* position of main
    main_cpps,          \* number of main.cpp files found
    test_cases,         \* args.test_cases
    cpp_i,              \* number of main.cpp files the loop of _main has completed
    total_failures,     \* local total_failures of _main
    status,             \* how main ended: the code it returned or the exception it raised
    ran,                \* fixtures run so far: numbers passed and failed (observation only)
    \* ---- fixture discovery on its own ----
    dpc,                \* which discovery function is applied, and how far
    arg_basename,       \* parameter of _derive_counterparts (a basename)
    filenames,          \* what _derive_counterparts returned or raised
    q_dir,              \* the directory scanned: its files and their texts
    test_case_files,    \* what _detect_test_cases returned or raised
    env_file,           \* the lines of the env file _read_env reads
    env,                \* the dict _read_env returned
    \* ---- hwsuite.get_config / hwsuite.store_config ----
    cpc,                \* the call of get_config / store_config made last
    CFG_CACHE_DISABLED, \* module flag CFG_CACHE_DISABLED
    _CACHE,             \* _CACHE['config']: the dict of cached configurations
    cfg_files,          \* the configuration file of each project root: its text
    got,                \* what the last get_config was asked and returned
    stored,             \* per project root, the configuration store_config wrote last
    \* ---- ScreenRunnable called method by method ----
    call                \* the method called last and how it ended

schedVars == <<max_test_cases, matching, timeout, concurrency_level, mainPc, i, test_case,
               threads, joined, exceeded, wpc, wcase, wout, wraised, concurrer,
               outcomes_lock, outcomes>>

runVars == <<fixture, input_lines, require_screen, applicability, stuff_config, poll_limit,
             rpc, expected_text, tempdir, proc, proc_exit, started_proc, returncode,
             completed_proc, num_stuffs, num_polls, li, sent, pending, exit_code,
             valgrind_rc, hist, result>>

pureVars == <<ppc, arg_mode, arg_line, formatted, reformatted, arg_expected, arg_actual,
              checked>>

mainVars == <<mpc, main_cpps, test_cases, cpp_i, total_failures, status, ran>>

discVars == <<dpc, arg_basename, filenames, q_dir, test_case_files, env_file, env>>

confVars == <<cpc, CFG_CACHE_DISABLED, _CACHE, cfg_files, got, stored>>

otherVars == <<discVars, confVars, call>>

vars == <<schedVars, runVars, pureVars, mainVars, otherVars>>

(***************************************************************************)
(* Values and pure functions of the single-case runner                     *)
(***************************************************************************)
\* exit codes a process ends with on its own
ExitCodes == {0, 1}
\* Popen.returncode after SIGTERM / SIGKILL
SigTerm == -15
SigKill == -9
\* --error-exitcode=2 of the valgrind options (line 455)
ValgrindErrorExit == 2

_STUFF_MODES == {"auto", "strict"}
_STUFF_SPECIALS_KEYS == {"^", "#", "$"}
\* no character has an escape
Escapage_None(ch) == <<ch>>

\* _STUFF_SPECIALS[ch], with None replaced by the octal escape "\\" + oct(ord(ch))[2:]
Escapage(ch) ==
    CASE ch = "^" -> <<"\\", "1", "3", "6">>
      [] ch = "#" -> <<"\\", "4", "3">>
      [] ch = "$" -> <<"\\", "$">>
      [] OTHER -> <<ch>>

\* StuffConfig.has_special_chars
has_special_chars(line) == \E k \in DOMAIN line : line[k] \in _STUFF_SPECIALS_KEYS

\* StuffConfig.translate_special_chars
RECURSIVE translate_special_chars(_)
translate_special_chars(line) ==
    IF line = <<>> THEN <<>>
    ELSE Escapage(Head(line)) \o translate_special_chars(Tail(line))

\* format_line without the strict check: a line with special characters passes
format_line_Lenient(cfg, line) ==
    IF cfg.mode \notin _STUFF_MODES
      THEN [raised |-> "ValueError", line |-> line]
    ELSE IF cfg.mode = "auto"
      THEN LET t == translate_special_chars(line)
           IN  IF t = <<>> THEN [raised |-> "IndexError", line |-> line]
               ELSE IF t[Len(t)] # "\n" THEN [raised |-> "", line |-> Append(t, "\n")]
               ELSE [raised |-> "", line |-> t]
    ELSE [raised |-> "", line |-> line]

\* StuffConfig.format_line: the line to transmit, or the exception raised
format_line(cfg, line) ==
    IF cfg.mode \notin _STUFF_MODES
      THEN [raised |-> "ValueError", line |-> line]
    ELSE IF cfg.mode = "strict" /\ has_special_chars(line)
      THEN [raised |-> "StuffContentException", line |-> line]
    ELSE IF cfg.mode = "auto"
      THEN LET t == translate_special_chars(line)
           IN  IF t = <<>> THEN [raised |-> "IndexError", line |-> line]
               ELSE IF t[Len(t)] # "\n" THEN [raised |-> "", line |-> Append(t, "\n")]
               ELSE [raised |-> "", line |-> t]
    ELSE [raised |-> "", line |-> line]

\* str.expandtabs(8): a tab becomes the spaces up to the next multiple of 8
\* columns; the column restarts after a newline or carriage return
TabSize == 8
Spaces(n) == [k \in 1 .. n |-> " "]
RECURSIVE ExpandFrom(_, _)
ExpandFrom(text, col) ==
    IF text = <<>> THEN <<>>
    ELSE LET ch == Head(text) IN
         IF ch = "\t"
           THEN Spaces(TabSize - (col % TabSize))
                  \o ExpandFrom(Tail(text), col + (TabSize - (col % TabSize)))
         ELSE IF ch \in {"\n", "\r"}
           THEN <<ch>> \o ExpandFrom(Tail(text), 0)
         ELSE <<ch>> \o ExpandFrom(Tail(text), col + 1)
expandtabs(text) == ExpandFrom(text, 0)

\* _transform_expected without the tab-expanded candidate
_transform_expected_RawOnly(expected, actual) == <<expected>>

\* TestCaseRunner._transform_expected
_transform_expected(expected, actual) ==
    IF \E k \in DOMAIN expected : expected[k] = "\t"
      THEN <<expected, expandtabs(expected)>>
      ELSE <<expected>>

\* _transform_actual with a tab-expanded candidate of the captured text
_transform_actual_Expanded(expected, actual) == <<actual, expandtabs(actual)>>

\* TestCaseRunner._transform_actual
_transform_actual(expected, actual) == <<actual>>

\* TestCaseRunner._compare_texts
_compare_texts(expected, actual) == expected = actual

\* make_outcome that ignores its parameter passed
make_outcome_Passed(tc, passed, expected_text_, actual_text, message) ==
    [passed |-> TRUE, test_case |-> tc, expected_text |-> expected_text_,
     actual_text |-> actual_text, message |-> message]

\* TestCaseOutcome as make_outcome of run_test_case builds it
make_outcome(tc, passed, expected_text_, actual_text, message) ==
    [passed |-> passed, test_case |-> tc, expected_text |-> expected_text_,
     actual_text |-> actual_text, message |-> message]

\* _check without the branch for a missing expected text: the texts decide
_check_TextOnly(tc, expected_exit, expected_txt, actual_exit, actual_txt) ==
    IF _compare_texts(expected_txt, actual_txt)
      THEN [outcome |-> make_outcome(tc, TRUE, expected_txt, actual_txt, <<"ok">>),
            compared |-> TRUE]
      ELSE [outcome |-> make_outcome(tc, FALSE, expected_txt, actual_txt, <<"diff">>),
            compared |-> TRUE]

\* TestCaseRunner._check on Result(exit_code, text) pairs; compared tells
\* whether the texts were compared
_check(tc, expected_exit, expected_txt, actual_exit, actual_txt) ==
    IF expected_txt = NoneText
      THEN LET passed == (expected_exit = actual_exit)
           IN  [outcome |-> make_outcome(tc, passed, NoneText, actual_txt,
                                         IF passed THEN <<"ok">> ELSE <<"exit_code">>),
                compared |-> FALSE]
      ELSE LET expected_texts == _transform_expected(expected_txt, actual_txt)
               actual_texts == _transform_actual(expected_txt, actual_txt)
           IN  IF \E e \in DOMAIN expected_texts : \E a \in DOMAIN actual_texts :
                     _compare_texts(expected_texts[e], actual_texts[a])
                 THEN [outcome |-> make_outcome(tc, TRUE, expected_txt, actual_txt, <<"ok">>),
                       compared |-> TRUE]
                 ELSE [outcome |-> make_outcome(tc, FALSE,
                                                expected_texts[Len(expected_texts)],
                                                actual_texts[Len(actual_texts)], <<"diff">>),
                       compared |-> TRUE]

\* TestCase.check_exit_code
check_exit_code(tc, code) == code = tc.exit_code

\* _is_use_screen that ignores the policy
_is_use_screen_InputOnly(policy, tc) == tc.input_file

\* TestCaseRunner._is_use_screen
_is_use_screen(policy, tc) ==
    IF policy = "never" THEN FALSE
    ELSE IF policy = "always" THEN TRUE
    ELSE tc.input_file

\* ValgrindConfig.is_applicable
is_applicable(policy, tc) ==
    IF policy = "always" THEN TRUE
    ELSE IF policy = "never" THEN FALSE
    ELSE ~tc.input_file

\* str(returncode) in f"unexpected exit code {completed_proc.returncode}"
IntStr(n) == CASE n = 0 -> "0" [] n = 1 -> "1" [] n = 2 -> "2" [] OTHER -> "?"

\* the texts an expected file holds, and the texts a screen log or stdout holds
ExpectedTexts == { <<"a">>, <<"a", "\t", "b">> }
ActualTexts == { <<"a">>, <<"a", "\t", "b">>, expandtabs(<<"a", "\t", "b">>) }

\* the lines of an input file: every line but the last ends with a newline
FullLines == { <<"a", "\n">>, <<"$", "\n">> }
LastLines == FullLines \cup { <<"a">> }
InputFiles ==
    UNION { { f \in [1 .. n -> LastLines] : \A k \in 1 .. n - 1 : f[k] \in FullLines }
            : n \in 0 .. MaxLines }

NoResult == [kind |-> "none"]
NoPending == [kind |-> "none"]
NoHist == [awaited |-> FALSE, timed_out |-> FALSE, quit |-> "", killed |-> FALSE,
           compared |-> FALSE, exited_at |-> NoneInt, session |-> FALSE, pauses |-> 0,
           signals |-> <<>>, reads |-> 0, output |-> FALSE]

\* the runner's variables while no case is being run
RunIdle ==
    /\ fixture = [input_file |-> FALSE, expected_file |-> FALSE, exit_code |-> 0]
    /\ input_lines = <<>>
    /\ require_screen = "auto"
    /\ applicability = "never"
    /\ stuff_config = [mode |-> "auto", eof |-> FALSE]
    /\ poll_limit = 0
    /\ rpc = "idle"
    /\ expected_text = NoneText
    /\ tempdir = "none"
    /\ proc = "none"
    /\ proc_exit = NoneInt
    /\ started_proc = FALSE
    /\ returncode = NoneInt
    /\ completed_proc = NoneInt
    /\ num_stuffs = 0
    /\ num_polls = 0
    /\ li = 0
    /\ sent = <<>>
    /\ pending = NoPending
    /\ exit_code = NoneInt
    /\ valgrind_rc = NoneInt
    /\ hist = NoHist
    /\ result = NoResult

(***************************************************************************)
(* Inputs of format_line and _check applied on their own                   *)
(***************************************************************************)
\* all sequences over S of length at most n
Seqs(S, n) == UNION { [1 .. k -> S] : k \in 0 .. n }

\* a line as readlines() yields it: not empty, a newline only at its end
LineChars == {"a", "^", "#", "$"}
PureLines ==
    { l \in Seqs(LineChars \cup {"\n"}, MaxLineLen) :
        l # <<>> /\ \A k \in 1 .. Len(l) - 1 : l[k] # "\n" }

\* texts of an expected file and of a screen log or stdout: short texts with
\* tabs and newlines, and their tab-expanded forms as the screen log shows them
TextChars == {"a", "\t", "\n"}
PureTexts ==
    LET raw == Seqs(TextChars, MaxTextLen) IN raw \cup { expandtabs(t) : t \in raw }

NoFormat == [raised |-> "", line |-> <<>>]
NoFixture == [input_file |-> FALSE, expected_file |-> FALSE, exit_code |-> 0]
NoChecked == make_outcome(NoFixture, FALSE, NoneText, NoneText, <<>>)
NoResultPair == [exit_code |-> 0, text |-> NoneText]

\* the variables of the functions applied on their own while none is applied
PureIdle ==
    /\ ppc = "idle"
    /\ arg_mode = "auto"
    /\ arg_line = <<>>
    /\ formatted = NoFormat
    /\ reformatted = NoFormat
    /\ arg_expected = NoResultPair
    /\ arg_actual = NoResultPair
    /\ checked = NoChecked

NoStatus == [kind |-> "none", cause |-> ""]

\* the variables of main while main is not running
MainIdle ==
    /\ mpc = "idle"
    /\ main_cpps = 0
    /\ test_cases = "auto"
    /\ cpp_i = 0
    /\ total_failures = 0
    /\ status = NoStatus
    /\ ran = [passed |-> 0, failed |-> 0]

(***************************************************************************)
(* Fixture discovery: _derive_counterparts, _read_env, _create_test_case,  *)
(* detect_test_case_files and CppChecker._detect_test_cases.  Basenames    *)
(* are strings; the text of a file is the sequence of its lines, a line    *)
(* the sequence of its characters.                                         *)
(***************************************************************************)
\* number of fixture identifiers, and of files in a directory
MaxIds == 1
MaxFiles == 3

\* an Optional[str] that is None (no basename holds a slash)
NoneFile == "/None"
\* TestCase.env that is None (a frozenset of (key, value) pairs otherwise)
NoneEnv == {<<"None">>}

\* str.startswith(prefix), str.endswith(suffix), str.endswith(suffix, start)
startswith(s, prefix) == Len(s) >= Len(prefix) /\ SubSeq(s, 1, Len(prefix)) = prefix
endswith(s, suffix) ==
    Len(s) >= Len(suffix) /\ SubSeq(s, Len(s) - Len(suffix) + 1, Len(s)) = suffix
endswith_from(s, suffix, start) == endswith(SubSeq(s, start + 1, Len(s)), suffix)

\* os.path.splitext(p)[0] of a name without separators: the name up to its
\* last dot, unless nothing but dots comes before that dot
splitext(p) ==
    LET dots == { k \in 1 .. Len(p) : SubSeq(p, k, k) = "." } IN
    IF dots = {} THEN p
    ELSE LET d == CHOOSE k \in dots : \A j \in dots : j <= k IN
         IF \E k \in 1 .. d - 1 : SubSeq(p, k, k) # "." THEN SubSeq(p, 1, d - 1) ELSE p

TestCaseFilenameSet(identifier, expected, input, env_, args) ==
    [raised |-> "", identifier |-> identifier, expected |-> expected, input |-> input,
     env |-> env_, args |-> args]
\* _derive_counterparts raises ValueError
NotRecognized ==
    [raised |-> "ValueError", identifier |-> "", expected |-> "", input |-> "",
     env |-> "", args |-> ""]

\* the local function _derive(token, suffix) of _derive_counterparts
_derive(basename, token, suffix) ==
    IF suffix
      THEN LET identifier == SubSeq(basename, 1, Len(basename) - Len(token)) IN
           TestCaseFilenameSet(identifier, basename, identifier \o "-input.txt",
                               identifier \o "-env.txt", identifier \o "-args.txt")
      ELSE LET identifier == SubSeq(basename, Len(token) + 1, Len(basename)) IN
           TestCaseFilenameSet(splitext(identifier), basename, "input-" \o identifier,
                               "env-" \o identifier, "args-" \o identifier)

\* _derive_counterparts knowing the bare name and the suffix -expected.txt only
_derive_counterparts_Basic(basename) ==
    IF basename = "expected.txt"
      THEN TestCaseFilenameSet("", basename, "input.txt", "env.txt", "args.txt")
    ELSE IF endswith(basename, "-expected.txt")
      THEN _derive(basename, "-expected.txt", TRUE)
    ELSE NotRecognized

\* _derive_counterparts(expected_pathname), on the basename of the pathname;
\* the second endswith is called with True, that is 1, as its start index
_derive_counterparts(basename) ==
    IF basename = "expected.txt"
      THEN TestCaseFilenameSet("", basename, "input.txt", "env.txt", "args.txt")
    ELSE IF endswith(basename, "-expected.txt")
      THEN _derive(basename, "-expected.txt", TRUE)
    ELSE IF endswith_from(basename, "-expected-output.txt", 1)
      THEN _derive(basename, "-expected-output.txt", TRUE)
    ELSE IF startswith(basename, "expected-")
      THEN _derive(basename, "expected-", FALSE)
    ELSE NotRecognized

\* str.lstrip(chars), str.rstrip(chars), str.strip(chars)
RECURSIVE lstrip(_, _)
lstrip(line, chars) ==
    IF line # <<>> /\ Head(line) \in chars THEN lstrip(Tail(line), chars) ELSE line
RECURSIVE rstrip(_, _)
rstrip(line, chars) ==
    IF line # <<>> /\ line[Len(line)] \in chars
      THEN rstrip(SubSeq(line, 1, Len(line) - 1), chars) ELSE line
strip(line, chars) == rstrip(lstrip(line, chars), chars)

\* line.split(sep, 1) splitting at every separator
RECURSIVE split_All(_, _)
split_All(line, sep) ==
    LET at == { k \in 1 .. Len(line) : line[k] = sep } IN
    IF at = {} THEN <<line>>
    ELSE LET k == CHOOSE j \in at : \A j2 \in at : j <= j2 IN
         <<SubSeq(line, 1, k - 1)>> \o split_All(SubSeq(line, k + 1, Len(line)), sep)

\* line.split(sep, 1): the parts before and after the first separator
split(line, sep) ==
    LET at == { k \in 1 .. Len(line) : line[k] = sep } IN
    IF at = {} THEN <<line>>
    ELSE LET k == CHOOSE j \in at : \A j2 \in at : j <= j2 IN
         <<SubSeq(line, 1, k - 1), SubSeq(line, k + 1, Len(line))>>

\* a dict: a function from its keys; {}, d[key] = value, dict.items()
EmptyDict == <<>>
SetItem(d, key, value) == [x \in DOMAIN d \cup {key} |-> IF x = key THEN value ELSE d[x]]
items(d) == { <<key, d[key]>> : key \in DOMAIN d }

\* the loop of _read_env over the lines of the file
RECURSIVE _read_env_loop(_, _)
_read_env_loop(env_, lines) ==
    IF lines = <<>> THEN env_
    ELSE LET line == strip(Head(lines), {"\r", "\n"})
             parts == split(line, "=")
         IN _read_env_loop(IF Len(parts) > 1 THEN SetItem(env_, parts[1], parts[2])
                           ELSE IF Len(parts) > 0 /\ parts[1] # <<>>
                             THEN SetItem(env_, parts[1], <<>>)
                           ELSE env_,
                           Tail(lines))

\* _read_env(env_file), on the lines of the file
_read_env(lines) == _read_env_loop(EmptyDict, lines)

\* read_file_lines(pathname, rstrip), on the lines of the file
read_file_lines(lines, chars) == [k \in 1 .. Len(lines) |-> rstrip(lines[k], chars)]

\* TestCase.create(input_file, expected_file, env, args)
TestCase_create(input_file, expected_file, env_, args) ==
    [input_file |-> input_file, expected_file |-> expected_file, env |-> env_,
     args |-> args, exit_code |-> 0]

\* os.path.exists(os.path.join(parent, name))
exists(dir, name) == name \in DOMAIN dir

\* _create_test_case(expected_pathname) for a basename that
\* _derive_counterparts accepts
_create_test_case(dir, basename) ==
    LET names == _derive_counterparts(basename) IN
    TestCase_create(IF exists(dir, names.input) THEN names.input ELSE NoneFile,
                    basename,
                    IF exists(dir, names.env) THEN items(_read_env(dir[names.env]))
                    ELSE NoneEnv,
                    IF exists(dir, names.args) THEN read_file_lines(dir[names.args], {"\n"})
                    ELSE <<>>)

\* the condition of detect_test_case_files on a file name
is_expected_file(f) ==
    \/ startswith(f, "expected-output")
    \/ endswith(f, "-expected.txt")
    \/ endswith(f, "-expected-output.txt")
    \/ f = "expected.txt"

\* a < b for two str: by code point, character by character
RECURSIVE str_lt(_, _)
str_lt(a, b) ==
    LET CodePoints == "-./0123456789=_abcdefghijklmnopqrstuvwxyz"
        ord(c) == CHOOSE k \in 1 .. Len(CodePoints) : SubSeq(CodePoints, k, k) = c
    IN IF b = "" THEN FALSE
       ELSE IF a = "" THEN TRUE
       ELSE IF SubSeq(a, 1, 1) = SubSeq(b, 1, 1)
         THEN str_lt(SubSeq(a, 2, Len(a)), SubSeq(b, 2, Len(b)))
       ELSE ord(SubSeq(a, 1, 1)) < ord(SubSeq(b, 1, 1))

\* a < b for two TestCase tuples with different expected files, none of
\* whose fields compared is None: the first field that differs decides
TestCase_lt(a, b) ==
    IF a.input_file # b.input_file THEN str_lt(a.input_file, b.input_file)
    ELSE str_lt(a.expected_file, b.expected_file)

\* sorted(test_cases) compares a None with a str: '<' raises TypeError
sorted_raises(cases) ==
    \E a, b \in cases : a.input_file = NoneFile /\ b.input_file # NoneFile

\* sorted(test_cases) where it returns
sorted(cases) ==
    CHOOSE s \in [1 .. Cardinality(cases) -> cases] :
        \A j, k \in 1 .. Cardinality(cases) : j < k => TestCase_lt(s[j], s[k])

Detected(cases) == [raised |-> "", cases |-> cases]
DetectRaised(exception) == [raised |-> exception, cases |-> <<>>]

\* detect_test_case_files(q_dir) on a directory without subdirectories
detect_test_case_files(dir) ==
    LET files == { f \in DOMAIN dir : is_expected_file(f) } IN
    IF \E f \in files : _derive_counterparts(f).raised # ""
      THEN DetectRaised("ValueError")
    ELSE LET cases == { _create_test_case(dir, f) : f \in files } IN
         IF sorted_raises(cases) THEN DetectRaised("TypeError")
         ELSE Detected(sorted(cases))

\* _detect_test_cases that returns the empty list as it is
_detect_test_cases_NoDefault(dir) == detect_test_case_files(dir)

\* CppChecker._detect_test_cases(q_dir)
_detect_test_cases(dir) ==
    LET cases_from_files == detect_test_case_files(dir) IN
    IF cases_from_files.raised # "" \/ cases_from_files.cases # <<>>
      THEN cases_from_files
    ELSE Detected(<<TestCase_create(NoneFile, NoneFile, NoneEnv, <<>>)>>)

\* the fixture identifiers, and the file names a directory may hold: expected
\* files of every convention, their siblings, and names close to them
Ids == { IntStr(k) : k \in 1 .. MaxIds }
ExpectedNames(id) ==
    { id \o "-expected.txt", id \o "-expected-output.txt", "expected-output" \o id \o ".txt" }
SiblingNames(id) ==
    { id \o "-input.txt", id \o "-env.txt", id \o "-args.txt",
      "input" \o id \o ".txt", "input-output" \o id \o ".txt" }
FileNames ==
    { "expected.txt", "input.txt", "env.txt", "args.txt", "-expected-output.txt",
      "notes.txt" }
    \cup UNION { ExpectedNames(id) \cup SiblingNames(id) : id \in Ids }

\* the subsets of S with at most n elements
RECURSIVE SubsetsUpTo(_, _)
SubsetsUpTo(S, n) ==
    IF n = 0 THEN {{}}
    ELSE LET smaller == SubsetsUpTo(S, n - 1) IN
         smaller \cup { T \cup {x} : T \in smaller, x \in S }

\* the directories: at most MaxFiles files, all with the same text, which is
\* empty or has the two lines a=b and c
Dirs ==
    { [f \in S |-> text] :
        S \in SubsetsUpTo(FileNames, MaxFiles),
        text \in { <<>>, << <<"a", "=", "b", "\n">>, <<"c">> >> } }

\* the lines of an env file as iterating the file yields them: at most
\* MaxLines lines, a newline at the end of every line but perhaps the last
EnvFiles ==
    LET EnvLines == { l \in Seqs({"a", "=", "\n"}, MaxLineLen) :
                        l # <<>> /\ \A k \in 1 .. Len(l) - 1 : l[k] # "\n" }
    IN { f \in Seqs(EnvLines, MaxLines) :
           \A k \in 1 .. Len(f) - 1 : f[k][Len(f[k])] = "\n" }

NoFilenames == TestCaseFilenameSet("", "", "", "", "")

\* the variables of discovery while none of its functions is applied
DiscIdle ==
    /\ dpc = "idle"
    /\ arg_basename = ""
    /\ filenames = NoFilenames
    /\ q_dir = <<>>
    /\ test_case_files = Detected(<<>>)
    /\ env_file = <<>>
    /\ env = EmptyDict

(***************************************************************************)
(* The project configuration: hwsuite.get_config and hwsuite.store_config  *)
(***************************************************************************)
\* number of project roots
NumRoots == 2

CFG_FILENAME == ".hwconfig.json"
\* os.path.join(a, b)
join(a, b) == a \o "/" \o b

ProjRoots == { "/p" \o IntStr(k) : k \in 1 .. NumRoots }
\* the configurations: dicts such as {} and {'stage_prefix': 'x'}
Configs == UNION { [K -> {"x", "y"}] : K \in SUBSET {"stage_prefix"} }
\* a cfg argument that is None
NoneDict == [k \in {"/None"} |-> "/None"]

\* the text of a configuration file: blank, or a JSON object with its members
BlankText == [blank |-> TRUE, members |-> {}]
\* json.dump(cfg, ofile, indent=2)
json_dump(cfg) == [blank |-> FALSE, members |-> items(cfg)]
\* json.loads(ifile_str)
json_loads(text) ==
    [key \in { member[1] : member \in text.members } |->
        (CHOOSE member \in text.members : member[1] = key)[2]]
ConfigTexts == {BlankText} \cup { json_dump(cfg) : cfg \in Configs }

\* _load_config_from_file(cfg_pathname, proj_root=proj_root): the
\* configuration and the pathname it was read from
_load_config_from_file(files, cfg_pathname, proj_root) ==
    LET pathname == IF cfg_pathname = NoneFile THEN join(proj_root, CFG_FILENAME)
                    ELSE cfg_pathname
    IN [config |-> IF files[pathname].blank THEN EmptyDict ELSE json_loads(files[pathname]),
        cfg_pathname |-> pathname]

\* the key get_config stores a loaded configuration under, were it the key
\* it looks up
CacheKey_ProjRoot(proj_root, cfg_pathname) == proj_root
\* the key get_config stores a loaded configuration under: cfgs[cfg_pathname]
CacheKey(proj_root, cfg_pathname) == cfg_pathname

\* what get_config(proj_root, cfg_pathname) returns, and the cache it leaves
get_config(cache, files, disabled, proj_root, cfg_pathname) ==
    LET loaded == _load_config_from_file(files, cfg_pathname, proj_root) IN
    IF disabled THEN [config |-> loaded.config, cache |-> cache]
    ELSE IF proj_root \in DOMAIN cache
      THEN [config |-> cache[proj_root], cache |-> cache]
    ELSE [config |-> loaded.config,
          cache |-> SetItem(cache, CacheKey(proj_root, loaded.cfg_pathname), loaded.config)]

NoGot == [proj_root |-> NoneFile, config |-> EmptyDict]

\* the variables of the configuration while it is not used
ConfIdle ==
    /\ cpc = "idle"
    /\ CFG_CACHE_DISABLED = FALSE
    /\ _CACHE = EmptyDict
    /\ cfg_files = <<>>
    /\ got = NoGot
    /\ stored = <<>>

\* ScreenRunnable called method by method: no method called yet
NoCall == [method |-> "", raised |-> "", value |-> ""]

OtherIdle ==
    /\ DiscIdle
    /\ ConfIdle
    /\ call = NoCall

(***************************************************************************)
(* ConcurrencyManager / check_cpp                                          *)
(***************************************************************************)
Fixtures == 1 .. NumCases
Threads == 1 .. NumCases

\* TestCaseOutcome as perform sees it: passed, test_case, message
Outcome(passed, tc, message) == [passed |-> passed, test_case |-> tc, message |-> message]
NoOutcome == [passed |-> FALSE, test_case |-> 0, message |-> <<>>]

\* what one call of TestCaseRunner.run_test_case can return: <<passed, message>>
RunReturns == { <<TRUE, <<"ok">> >>, <<FALSE, <<"diff">> >> }
\* what one call of TestCaseRunner.run_test_case can raise: <<type(e).__name__, str(e)>>
RunRaises ==
    { <<"AssertionError", "completed process not assigned to screen runner">>,
      <<"StuffContentException", "input line contains characters that may not be compatible">> }

\* f"unhandled: {type(e).__name__} {e}"
UnhandledMessage(e) == <<"unhandled:", e[1], e[2]>>

InitSched ==
    /\ max_test_cases \in {NoneInt} \cup (0 .. NumCases - 1)
    /\ matching \in SUBSET Fixtures
    /\ timeout \in BOOLEAN
    /\ concurrency_level \in 1 .. MaxLevel
    /\ mainPc = "dispatch"
    /\ i = 0
    /\ test_case = 0
    /\ threads = <<>>
    /\ joined = 0
    /\ exceeded = NoThread
    /\ wpc = [t \in Threads |-> "unstarted"]
    /\ wcase = [t \in Threads |-> 0]
    /\ wout = [t \in Threads |-> NoOutcome]
    /\ wraised = [t \in Threads |-> <<>>]
    /\ concurrer = concurrency_level
    /\ outcomes_lock = NoThread
    /\ outcomes = <<>>
    /\ RunIdle
    /\ PureIdle
    /\ MainIdle
    /\ OtherIdle

\* one iteration of the dispatch loop of check_cpp (lines 795-804): the for
\* statement assigns i and test_case, then the iteration breaks, continues or
\* starts a thread whose target is a lambda closing over the loop variables
Dispatch ==
    /\ mainPc = "dispatch"
    /\ i < NumCases
    /\ i' = i + 1
    /\ test_case' = i + 1
    /\ IF max_test_cases # NoneInt /\ i >= max_test_cases
         THEN /\ mainPc' = "join"
              /\ UNCHANGED <<threads, wpc>>
         ELSE IF (i + 1) \notin matching
           THEN UNCHANGED <<mainPc, threads, wpc>>
           ELSE /\ threads' = Append(threads, i + 1)
                /\ wpc' = [wpc EXCEPT ![Len(threads) + 1] = "call"]
                /\ UNCHANGED mainPc
    /\ UNCHANGED <<runVars, pureVars, mainVars, otherVars>>
    /\ UNCHANGED <<max_test_cases, matching, timeout, concurrency_level, joined, exceeded,
                   wcase, wout, wraised, concurrer, outcomes_lock, outcomes>>

\* the dispatch loop is exhausted
DispatchEnd ==
    /\ mainPc = "dispatch"
    /\ i = NumCases
    /\ mainPc' = "join"
    /\ UNCHANGED <<runVars, pureVars, mainVars, otherVars>>
    /\ UNCHANGED <<max_test_cases, matching, timeout, concurrency_level, i, test_case,
                   threads, joined, exceeded, wpc, wcase, wout, wraised, concurrer,
                   outcomes_lock, outcomes>>

\* the thread runs its target: the lambda reads the variable test_case of
\* check_cpp when it is called and passes that value to perform (line 802)
CallPerform(t) ==
    /\ wpc[t] = "call"
    /\ wcase' = [wcase EXCEPT ![t] = test_case]
    /\ wpc' = [wpc EXCEPT ![t] = "acquire"]
    /\ UNCHANGED <<runVars, pureVars, mainVars, otherVars>>
    /\ UNCHANGED <<max_test_cases, matching, timeout, concurrency_level, mainPc, i,
                   test_case, threads, joined, exceeded, wout, wraised, concurrer,
                   outcomes_lock, outcomes>>

\* self.concurrer.acquire() (line 688)
Acquire(t) ==
    /\ wpc[t] = "acquire"
    /\ concurrer > 0
    /\ concurrer' = concurrer - 1
    /\ wpc' = [wpc EXCEPT ![t] = "run"]
    /\ UNCHANGED <<runVars, pureVars, mainVars, otherVars>>
    /\ UNCHANGED <<max_test_cases, matching, timeout, concurrency_level, mainPc, i,
                   test_case, threads, joined, exceeded, wcase, wout, wraised,
                   outcomes_lock, outcomes>>

\* _run_test_case returns an outcome; finally: self.concurrer.release() (lines 690-696)
RunReturn(t) ==
    /\ wpc[t] = "run"
    /\ \E r \in RunReturns : wout' = [wout EXCEPT ![t] = Outcome(r[1], wcase[t], r[2])]
    /\ concurrer' = concurrer + 1
    /\ wpc' = [wpc EXCEPT ![t] = "lock"]
    /\ UNCHANGED <<runVars, pureVars, mainVars, otherVars>>
    /\ UNCHANGED <<max_test_cases, matching, timeout, concurrency_level, mainPc, i,
                   test_case, threads, joined, exceeded, wcase, wraised,
                   outcomes_lock, outcomes>>

\* RunRaise with the release outside a finally clause: an exception skips it
RunRaise_NoRelease(t) ==
    /\ wpc[t] = "run"
    /\ \E e \in RunRaises :
         /\ wraised' = [wraised EXCEPT ![t] = e]
         /\ wout' = [wout EXCEPT ![t] = Outcome(FALSE, wcase[t], UnhandledMessage(e))]
    /\ wpc' = [wpc EXCEPT ![t] = "lock"]
    /\ UNCHANGED <<runVars, pureVars, mainVars, otherVars>>
    /\ UNCHANGED <<max_test_cases, matching, timeout, concurrency_level, mainPc, i,
                   test_case, threads, joined, exceeded, wcase, concurrer, outcomes_lock,
                   outcomes>>

\* RunRaise without the except clause: the exception ends the thread
RunRaise_Propagates(t) ==
    /\ wpc[t] = "run"
    /\ \E e \in RunRaises : wraised' = [wraised EXCEPT ![t] = e]
    /\ concurrer' = concurrer + 1
    /\ wpc' = [wpc EXCEPT ![t] = "done"]
    /\ UNCHANGED <<runVars, pureVars, mainVars, otherVars>>
    /\ UNCHANGED <<max_test_cases, matching, timeout, concurrency_level, mainPc, i,
                   test_case, threads, joined, exceeded, wcase, wout, outcomes_lock,
                   outcomes>>

\* _run_test_case raises; finally: self.concurrer.release(); except Exception:
\* the outcome is the synthetic failing outcome (lines 695-702)
RunRaise(t) ==
    /\ wpc[t] = "run"
    /\ \E e \in RunRaises :
         /\ wraised' = [wraised EXCEPT ![t] = e]
         /\ wout' = [wout EXCEPT ![t] = Outcome(FALSE, wcase[t], UnhandledMessage(e))]
    /\ concurrer' = concurrer + 1
    /\ wpc' = [wpc EXCEPT ![t] = "lock"]
    /\ UNCHANGED <<runVars, pureVars, mainVars, otherVars>>
    /\ UNCHANGED <<max_test_cases, matching, timeout, concurrency_level, mainPc, i,
                   test_case, threads, joined, exceeded, wcase, outcomes_lock, outcomes>>

\* LockAcquire that does not wait for the lock to be free
LockAcquire_NoWait(t) ==
    /\ wpc[t] = "lock"
    /\ outcomes_lock' = t
    /\ wpc' = [wpc EXCEPT ![t] = "store"]
    /\ UNCHANGED <<runVars, pureVars, mainVars, otherVars>>
    /\ UNCHANGED <<max_test_cases, matching, timeout, concurrency_level, mainPc, i,
                   test_case, threads, joined, exceeded, wcase, wout, wraised,
                   concurrer, outcomes>>

\* self.outcomes_lock.acquire() (line 703)
LockAcquire(t) ==
    /\ wpc[t] = "lock"
    /\ outcomes_lock = NoThread
    /\ outcomes_lock' = t
    /\ wpc' = [wpc EXCEPT ![t] = "store"]
    /\ UNCHANGED <<runVars, pureVars, mainVars, otherVars>>
    /\ UNCHANGED <<max_test_cases, matching, timeout, concurrency_level, mainPc, i,
                   test_case, threads, joined, exceeded, wcase, wout, wraised,
                   concurrer, outcomes>>

\* outcomes[test_case] = outcome; finally: self.outcomes_lock.release() (lines 704-707)
Store(t) ==
    /\ wpc[t] = "store"
    /\ outcomes' = [f \in DOMAIN outcomes \cup {wcase[t]} |->
                      IF f = wcase[t] THEN wout[t] ELSE outcomes[f]]
    /\ outcomes_lock' = NoThread
    /\ wpc' = [wpc EXCEPT ![t] = "done"]
    /\ UNCHANGED <<runVars, pureVars, mainVars, otherVars>>
    /\ UNCHANGED <<max_test_cases, matching, timeout, concurrency_level, mainPc, i,
                   test_case, threads, joined, exceeded, wcase, wout, wraised, concurrer>>

\* t.join(timeout) returns with the thread ended, or the blocking t.join()
\* after the timeout returns (lines 806, 809)
Join ==
    /\ mainPc = "join"
    /\ joined < Len(threads)
    /\ wpc[joined + 1] = "done"
    /\ joined' = joined + 1
    /\ UNCHANGED <<runVars, pureVars, mainVars, otherVars>>
    /\ UNCHANGED <<max_test_cases, matching, timeout, concurrency_level, mainPc, i,
                   test_case, threads, exceeded, wpc, wcase, wout, wraised, concurrer,
                   outcomes_lock, outcomes>>

\* JoinTimeout without the second join: the thread is given up after the timeout
JoinTimeout_Abandon ==
    /\ mainPc = "join"
    /\ joined < Len(threads)
    /\ timeout
    /\ wpc[joined + 1] # "done"
    /\ exceeded # joined + 1
    /\ exceeded' = joined + 1
    /\ joined' = joined + 1
    /\ UNCHANGED <<runVars, pureVars, mainVars, otherVars>>
    /\ UNCHANGED <<max_test_cases, matching, timeout, concurrency_level, mainPc, i,
                   test_case, threads, wpc, wcase, wout, wraised, concurrer,
                   outcomes_lock, outcomes>>

\* t.join(timeout) returns with the thread still alive: it is logged as
\* having exceeded the timeout (lines 806-808), and t.join() is entered
JoinTimeout ==
    /\ mainPc = "join"
    /\ joined < Len(threads)
    /\ timeout
    /\ wpc[joined + 1] # "done"
    /\ exceeded # joined + 1
    /\ exceeded' = joined + 1
    /\ UNCHANGED <<runVars, pureVars, mainVars, otherVars>>
    /\ UNCHANGED <<max_test_cases, matching, timeout, concurrency_level, mainPc, i,
                   test_case, threads, joined, wpc, wcase, wout, wraised, concurrer,
                   outcomes_lock, outcomes>>

\* assert len(threads) == len(outcomes); return outcomes (lines 810-813)
Return ==
    /\ mainPc = "join"
    /\ joined = Len(threads)
    /\ mainPc' = IF Len(threads) = Cardinality(DOMAIN outcomes)
                   THEN "returned" ELSE "AssertionError"
    /\ UNCHANGED <<runVars, pureVars, mainVars, otherVars>>
    /\ UNCHANGED <<max_test_cases, matching, timeout, concurrency_level, i, test_case,
                   threads, joined, exceeded, wpc, wcase, wout, wraised, concurrer,
                   outcomes_lock, outcomes>>

NextSched ==
    \/ Dispatch
    \/ DispatchEnd
    \/ \E t \in Threads : CallPerform(t)
    \/ \E t \in Threads : Acquire(t)
    \/ \E t \in Threads : RunReturn(t)
    \/ \E t \in Threads : RunRaise(t)
    \/ \E t \in Threads : LockAcquire(t)
    \/ \E t \in Threads : Store(t)
    \/ Join
    \/ JoinTimeout
    \/ Return

Spec == InitSched /\ [][NextSched]_vars

\* the steps of one worker thread (perform) and of the thread in check_cpp
WorkerStep(t) ==
    \/ CallPerform(t)
    \/ Acquire(t)
    \/ RunReturn(t)
    \/ RunRaise(t)
    \/ LockAcquire(t)
    \/ Store(t)

MainStep ==
    \/ Dispatch
    \/ DispatchEnd
    \/ Join
    \/ JoinTimeout
    \/ Return

\* every thread is scheduled: a thread that can take a step takes one
\* eventually; for a worker in run_test_case this says that its case ends
SpecFair ==
    /\ InitSched
    /\ [][NextSched]_vars
    /\ WF_vars(MainStep)
    /\ \A t \in Threads : WF_vars(WorkerStep(t))

(***************************************************************************)
(* TestCaseRunner.run_test_case and ScreenRunnable                         *)
(***************************************************************************)
SchedIdle ==
    /\ max_test_cases = NoneInt
    /\ matching = {}
    /\ timeout = FALSE
    /\ concurrency_level = 1
    /\ mainPc = "idle"
    /\ i = 0
    /\ test_case = 0
    /\ threads = <<>>
    /\ joined = 0
    /\ exceeded = NoThread
    /\ wpc = [t \in Threads |-> "unstarted"]
    /\ wcase = [t \in Threads |-> 0]
    /\ wout = [t \in Threads |-> NoOutcome]
    /\ wraised = [t \in Threads |-> <<>>]
    /\ concurrer = 1
    /\ outcomes_lock = NoThread
    /\ outcomes = <<>>

\* the configuration of the runner and the fixture it is called with
InitRun ==
    /\ SchedIdle
    /\ PureIdle
    /\ MainIdle
    /\ OtherIdle
    /\ fixture \in [input_file : BOOLEAN, expected_file : BOOLEAN, exit_code : ExitCodes]
    /\ input_lines \in IF fixture.input_file THEN InputFiles ELSE { <<>> }
    /\ require_screen \in {"auto", "always", "never"}
    /\ applicability \in {"auto", "always", "never"}
    /\ stuff_config \in [mode : _STUFF_MODES, eof : BOOLEAN]
    /\ poll_limit \in 0 .. MaxPollLimit
    /\ rpc = "begin"
    /\ expected_text = NoneText
    /\ tempdir = "none"
    /\ proc = "none"
    /\ proc_exit = NoneInt
    /\ started_proc = FALSE
    /\ returncode = NoneInt
    /\ completed_proc = NoneInt
    /\ num_stuffs = 0
    /\ num_polls = 0
    /\ li = 0
    /\ sent = <<>>
    /\ pending = NoPending
    /\ exit_code = NoneInt
    /\ valgrind_rc = NoneInt
    /\ hist = NoHist
    /\ result = NoResult

cfgVars == <<fixture, input_lines, require_screen, applicability, stuff_config, poll_limit>>

\* ScreenRunnable.finished() without force_check
finished == completed_proc # NoneInt
\* ScreenRunnable.launched() without the test of finished()
launched_StartedOnly == started_proc
\* ScreenRunnable.launched()
launched == ~finished /\ started_proc

\* the text screener.logfile_text(ignore_failure=True) returns: the log, or
\* None when the log file cannot be read
LogTextsOrNone == ActualTexts \cup {NoneText}

\* started_proc.poll() is not None: the process has ended (lines 375-376, 388)
Poll_Never == FALSE
Poll == proc = "exited"

\* proc.returncode != 0 for the stuff command of an input line (line 619)
SendFailed_Never(rc) == FALSE
SendFailed(rc) == rc # 0

\* Popen.__exit__ on leaving `with screener.start()` waits for the process (line 605)
PopenExit_NoWait == TRUE
PopenExit == proc = "exited"

Returning(o) == [kind |-> "return", outcome |-> o]
Raising(kind) == [kind |-> "raise", exception |-> kind]

\* lines 578-606: read the expected file, create the temporary directory,
\* and either start the screen session (ScreenRunnable.start, lines 319-323)
\* or go on to the direct invocation
Begin ==
    /\ rpc = "begin"
    /\ expected_text' \in IF fixture.expected_file THEN ExpectedTexts ELSE {NoneText}
    /\ tempdir' = "exists"
    /\ IF _is_use_screen(require_screen, fixture)
         THEN /\ proc' = "running"
              /\ started_proc' = TRUE
              /\ hist' = [hist EXCEPT !.session = TRUE]
              /\ rpc' = "await_output"
         ELSE /\ rpc' = "direct"
              /\ UNCHANGED <<proc, started_proc, hist>>
    /\ UNCHANGED <<cfgVars, proc_exit, returncode, completed_proc, num_stuffs, num_polls,
                   li, sent, pending, exit_code, valgrind_rc, result>>
    /\ UNCHANGED <<schedVars, pureVars, mainVars, otherVars>>

\* the subject ends on its own, and the screen session with it
SubjectExits ==
    /\ proc = "running"
    /\ proc' = "exited"
    /\ proc_exit' \in ExitCodes
    /\ hist' = IF rpc \in {"await_output", "feed"} /\ li < Len(input_lines)
                 THEN [hist EXCEPT !.exited_at = li] ELSE hist
    /\ UNCHANGED <<cfgVars, rpc, expected_text, tempdir, started_proc, returncode,
                   completed_proc, num_stuffs, num_polls, li, sent, pending, exit_code,
                   valgrind_rc, result>>
    /\ UNCHANGED <<schedVars, pureVars, mainVars, otherVars>>

\* `while num_polls < poll_config.limit` (line 233), and the same off by one
PollsLeft_Inclusive == num_polls <= poll_limit
PollsLeft == num_polls < poll_limit

\* one round of LogWatcher.await_output (lines 230-241): the loop ends when
\* the limit is reached or the log read holds non-whitespace text, else it
\* sleeps and counts
AwaitOutput ==
    /\ rpc = "await_output"
    /\ IF PollsLeft
         THEN \E satisfied \in BOOLEAN :
                /\ hist' = [hist EXCEPT !.reads = @ + 1, !.output = satisfied]
                /\ IF satisfied THEN rpc' = "feed" /\ UNCHANGED num_polls
                   ELSE num_polls' = num_polls + 1 /\ UNCHANGED rpc
         ELSE rpc' = "feed" /\ UNCHANGED <<num_polls, hist>>
    /\ UNCHANGED <<cfgVars, expected_text, tempdir, proc, proc_exit, started_proc,
                   returncode, completed_proc, num_stuffs, li, sent, pending, exit_code,
                   valgrind_rc, result>>
    /\ UNCHANGED <<schedVars, pureVars, mainVars, otherVars>>

\* the line the feed loop takes next (enumerate(input_lines), line 611)
NextLine_Repeat == input_lines[1]
NextLine == input_lines[li + 1]

\* one iteration of the feed loop (lines 611-621): the pause, then
\* ScreenRunnable.stuff (lines 344-361) with finished(force_check=True)
\* (lines 371-379)
Stuff ==
    /\ rpc = "feed"
    /\ li < Len(input_lines)
    /\ hist' = [hist EXCEPT !.pauses = @ + 1]
    /\ LET line == format_line(stuff_config, NextLine) IN
       IF ~launched
         THEN /\ pending' = Raising("ScreenStateException")
              /\ rpc' = "finally"
              /\ UNCHANGED <<returncode, completed_proc, num_stuffs, li, sent>>
       ELSE IF Poll
         THEN /\ returncode' = proc_exit
              /\ completed_proc' = proc_exit
              /\ \E text \in LogTextsOrNone :
                   pending' = Returning(make_outcome(fixture, FALSE, expected_text, text, <<"early">>))
              /\ rpc' = "finally"
              /\ UNCHANGED <<num_stuffs, li, sent>>
       ELSE IF line.raised # ""
         THEN /\ pending' = Raising(line.raised)
              /\ rpc' = "finally"
              /\ UNCHANGED <<returncode, completed_proc, num_stuffs, li, sent>>
       ELSE \E rc \in {0, 1} :
              /\ sent' = Append(sent, [kind |-> "line", text |-> line.line, rc |-> rc])
              /\ num_stuffs' = num_stuffs + 1
              /\ IF SendFailed(rc)
                   THEN /\ \E text \in LogTextsOrNone :
                             pending' = Returning(make_outcome(fixture, FALSE, expected_text,
                                                               text, <<"stuff">>))
                        /\ rpc' = "finally"
                        /\ UNCHANGED li
                   ELSE /\ li' = li + 1
                        /\ UNCHANGED <<pending, rpc>>
              /\ UNCHANGED <<returncode, completed_proc>>
    /\ UNCHANGED <<cfgVars, expected_text, tempdir, proc, proc_exit, started_proc, num_polls,
                   exit_code, valgrind_rc, result>>
    /\ UNCHANGED <<schedVars, pureVars, mainVars, otherVars>>

\* `if self.stuff_config.eof` (line 622), and the same without the test
EofDue_Always == TRUE
EofDue == stuff_config.eof

\* the feed loop is exhausted (lines 622-624): stuff_eof when configured
\* (ScreenRunnable.stuff_eof, lines 363-369), then on to the finally clause
StuffEof ==
    /\ rpc = "feed"
    /\ li = Len(input_lines)
    /\ IF EofDue
         THEN IF ~launched
                THEN /\ pending' = Raising("ScreenStateException")
                     /\ UNCHANGED <<returncode, completed_proc, sent>>
              ELSE IF Poll
                THEN /\ returncode' = proc_exit
                     /\ completed_proc' = proc_exit
                     /\ pending' = Raising("ScreenStateException")
                     /\ UNCHANGED sent
              ELSE \E rc \in {0, 1} :
                     /\ sent' = Append(sent, [kind |-> "eof", text |-> <<"^", "D">>, rc |-> rc])
                     /\ UNCHANGED <<returncode, completed_proc, pending>>
         ELSE UNCHANGED <<returncode, completed_proc, sent, pending>>
    /\ rpc' = "finally"
    /\ UNCHANGED <<cfgVars, expected_text, tempdir, proc, proc_exit, started_proc, num_stuffs,
                   num_polls, li, exit_code, valgrind_rc, hist, result>>
    /\ UNCHANGED <<schedVars, pureVars, mainVars, otherVars>>

\* finally: screener.await_proc(processing_timeout) (lines 333-342)
AwaitProc ==
    /\ rpc = "finally"
    /\ IF proc = "exited"
         THEN /\ returncode' = proc_exit
              /\ completed_proc' = proc_exit
              /\ started_proc' = FALSE
              /\ hist' = [hist EXCEPT !.awaited = TRUE]
         ELSE /\ hist' = [hist EXCEPT !.awaited = TRUE, !.timed_out = TRUE]
              /\ UNCHANGED <<returncode, completed_proc, started_proc>>
    /\ rpc' = "quit"
    /\ UNCHANGED <<cfgVars, expected_text, tempdir, proc, proc_exit, num_stuffs, num_polls,
                   li, sent, pending, exit_code, valgrind_rc, result>>
    /\ UNCHANGED <<schedVars, pureVars, mainVars, otherVars>>

\* screener.quit() (lines 382-399) and the decision to kill (lines 627-629);
\* the quit command ends with 0, with 1 and "No screen session found", or
\* with another failure
Quit ==
    /\ rpc = "quit"
    /\ IF finished
         THEN /\ hist' = [hist EXCEPT !.quit = "finished"]
              /\ rpc' = "exit_with"
              /\ UNCHANGED <<returncode, completed_proc>>
       ELSE IF Poll
         THEN /\ returncode' = proc_exit
              /\ completed_proc' = proc_exit
              /\ hist' = [hist EXCEPT !.quit = "polled"]
              /\ rpc' = "exit_with"
       ELSE \E answer \in {"ok", "no session", "failed"} :
              /\ hist' = [hist EXCEPT !.quit = answer]
              /\ rpc' = IF answer = "failed" /\ ~finished THEN "kill" ELSE "exit_with"
              /\ UNCHANGED <<returncode, completed_proc>>
    /\ UNCHANGED <<cfgVars, expected_text, tempdir, proc, proc_exit, started_proc, num_stuffs,
                   num_polls, li, sent, pending, exit_code, valgrind_rc, result>>
    /\ UNCHANGED <<schedVars, pureVars, mainVars, otherVars>>

\* open_proc.terminate() and open_proc.kill() (lines 407-410) on a process
\* that is running: terminate sends SIGTERM and returns without waiting, so
\* returncode is still None and kill is called; kill polls first
\* (Popen.send_signal) and sends SIGKILL unless the process is already found
\* ended by the SIGTERM; the process ends by whichever signal acts first.
\* reaped: kill's poll has set Popen.returncode
KillOutcomes ==
    { [signals |-> <<"SIGTERM">>, exit |-> SigTerm, reaped |-> TRUE],
      [signals |-> <<"SIGTERM", "SIGKILL">>, exit |-> SigTerm, reaped |-> FALSE],
      [signals |-> <<"SIGTERM", "SIGKILL">>, exit |-> SigKill, reaped |-> FALSE] }

\* screener.kill() (lines 401-412); for a process that has ended already the
\* poll of terminate stores its exit code and no signal is sent
Kill ==
    /\ rpc = "kill"
    /\ IF ~started_proc
         THEN /\ hist' = [hist EXCEPT !.killed = TRUE]
              /\ UNCHANGED <<proc, proc_exit, returncode>>
         ELSE IF proc = "running"
           THEN \E o \in KillOutcomes :
                  /\ proc' = "exited"
                  /\ proc_exit' = o.exit
                  /\ returncode' = IF o.reaped THEN o.exit ELSE returncode
                  /\ hist' = [hist EXCEPT !.killed = TRUE, !.signals = o.signals]
           ELSE /\ returncode' = proc_exit
                /\ hist' = [hist EXCEPT !.killed = TRUE]
                /\ UNCHANGED <<proc, proc_exit>>
    /\ rpc' = "exit_with"
    /\ UNCHANGED <<cfgVars, expected_text, tempdir, started_proc, completed_proc,
                   num_stuffs, num_polls, li, sent, pending, exit_code, valgrind_rc, result>>
    /\ UNCHANGED <<schedVars, pureVars, mainVars, otherVars>>

\* how run_test_case ends: the temporary directory is removed on the way out
Ends(r) ==
    /\ result' = r
    /\ tempdir' = "removed"
    /\ rpc' = "done"

\* leaving `with screener.start()` (Popen.__exit__ waits for the process),
\* then what the try block left pending: its return, its exception, or lines
\* 630-632 and 653: read the log (screen -L has created the log file with
\* the window, so the read finds it), assert completed_proc, check
ExitWith ==
    /\ rpc = "exit_with"
    /\ PopenExit
    /\ returncode' = IF proc = "exited" THEN proc_exit ELSE returncode
    /\ IF pending.kind = "return"
         THEN /\ Ends([kind |-> "returned", outcome |-> pending.outcome])
              /\ UNCHANGED <<exit_code, hist>>
       ELSE IF pending.kind = "raise"
         THEN /\ Ends([kind |-> "raised", exception |-> pending.exception])
              /\ UNCHANGED <<exit_code, hist>>
       ELSE IF completed_proc = NoneInt
         THEN /\ Ends([kind |-> "raised", exception |-> "AssertionError"])
              /\ UNCHANGED <<exit_code, hist>>
       ELSE \E output \in ActualTexts :
              LET c == _check(fixture, fixture.exit_code, expected_text, completed_proc, output)
              IN  /\ exit_code' = completed_proc
                  /\ hist' = [hist EXCEPT !.compared = c.compared]
                  /\ Ends([kind |-> "returned", outcome |-> c.outcome])
    /\ UNCHANGED <<cfgVars, expected_text, proc, proc_exit, started_proc, completed_proc,
                   num_stuffs, num_polls, li, sent, pending, valgrind_rc>>
    /\ UNCHANGED <<schedVars, pureVars, mainVars, otherVars>>

\* the direct invocation (lines 635-644, 651-653): subprocess.run, then the
\* exit code check; on a match either the memory check is due or _check runs
Direct ==
    /\ rpc = "direct"
    /\ \E code \in ExitCodes, output \in ActualTexts :
         /\ proc_exit' = code
         /\ exit_code' = code
         /\ proc' = "exited"
         /\ IF check_exit_code(fixture, code)
              THEN IF is_applicable(applicability, fixture)
                     THEN /\ rpc' = "valgrind"
                          /\ pending' = [kind |-> "output", output |-> output]
                          /\ UNCHANGED <<result, tempdir, hist>>
                     ELSE LET c == _check(fixture, fixture.exit_code, expected_text, code, output)
                          IN  /\ hist' = [hist EXCEPT !.compared = c.compared]
                              /\ Ends([kind |-> "returned", outcome |-> c.outcome])
                              /\ UNCHANGED pending
              ELSE /\ Ends([kind |-> "returned",
                            outcome |-> make_outcome(fixture, FALSE, expected_text, output,
                                                     <<"unexpected exit code", IntStr(code)>>)])
                   /\ UNCHANGED <<pending, hist>>
    /\ UNCHANGED <<cfgVars, expected_text, started_proc, returncode, completed_proc,
                   num_stuffs, num_polls, li, sent, valgrind_rc>>
    /\ UNCHANGED <<schedVars, pureVars, mainVars, otherVars>>

\* the memory check (lines 645-650, ValgrindRunner.run): valgrind ends with
\* the subject's exit code, or with its error exit code
Valgrind ==
    /\ rpc = "valgrind"
    /\ \E code \in {exit_code, ValgrindErrorExit} :
         /\ valgrind_rc' = code
         /\ IF code # 0
              THEN /\ Ends([kind |-> "returned",
                            outcome |-> make_outcome(fixture, FALSE, expected_text,
                                                     pending.output, <<"memcheck">>)])
                   /\ UNCHANGED hist
              ELSE LET c == _check(fixture, fixture.exit_code, expected_text, exit_code,
                                   pending.output)
                   IN  /\ hist' = [hist EXCEPT !.compared = c.compared]
                       /\ Ends([kind |-> "returned", outcome |-> c.outcome])
    /\ UNCHANGED <<cfgVars, expected_text, proc, proc_exit, started_proc, returncode,
                   completed_proc, num_stuffs, num_polls, li, sent, pending, exit_code>>
    /\ UNCHANGED <<schedVars, pureVars, mainVars, otherVars>>

NextRun ==
    \/ Begin
    \/ SubjectExits
    \/ AwaitOutput
    \/ Stuff
    \/ StuffEof
    \/ AwaitProc
    \/ Quit
    \/ Kill
    \/ ExitWith
    \/ Direct
    \/ Valgrind

SpecRun == InitRun /\ [][NextRun]_vars

\* the runner's thread is scheduled: a step of run_test_case that can be
\* taken is taken eventually; the subject may run forever
RunnerStep ==
    \/ Begin
    \/ AwaitOutput
    \/ Stuff
    \/ StuffEof
    \/ AwaitProc
    \/ Quit
    \/ Kill
    \/ ExitWith
    \/ Direct
    \/ Valgrind

\* the cases of InitRun with the memory-check policy at its default and the
\* expected exit code 0
InitRunFair ==
    /\ InitRun
    /\ applicability = "auto"
    /\ fixture.exit_code = 0

SpecRunFair == InitRunFair /\ [][NextRun]_vars /\ WF_vars(RunnerStep)

(***************************************************************************)
(* StuffConfig.format_line and TestCaseRunner._check applied on their own  *)
(***************************************************************************)
\* the function to apply and its arguments
InitPure ==
    /\ SchedIdle
    /\ RunIdle
    /\ MainIdle
    /\ OtherIdle
    /\ ppc \in {"format_line", "_check"}
    /\ IF ppc = "format_line"
         THEN /\ arg_mode \in _STUFF_MODES
              /\ arg_line \in PureLines
              /\ arg_expected = NoResultPair
              /\ arg_actual = NoResultPair
         ELSE /\ arg_mode = "auto"
              /\ arg_line = <<>>
              /\ arg_expected \in [exit_code : ExitCodes, text : PureTexts \cup {NoneText}]
              /\ arg_actual \in [exit_code : ExitCodes, text : PureTexts]
    /\ formatted = NoFormat
    /\ reformatted = NoFormat
    /\ checked = NoChecked

\* StuffConfig(mode, eof).format_line(line)
FormatLine ==
    /\ ppc = "format_line"
    /\ formatted' = format_line([mode |-> arg_mode, eof |-> FALSE], arg_line)
    /\ ppc' = "formatted"
    /\ UNCHANGED <<arg_mode, arg_line, reformatted, arg_expected, arg_actual, checked>>
    /\ UNCHANGED <<schedVars, runVars, mainVars, otherVars>>

\* format_line applied to the line it returned
FormatAgain ==
    /\ ppc = "formatted"
    /\ formatted.raised = ""
    /\ reformatted' = format_line([mode |-> arg_mode, eof |-> FALSE], formatted.line)
    /\ ppc' = "reformatted"
    /\ UNCHANGED <<arg_mode, arg_line, formatted, arg_expected, arg_actual, checked>>
    /\ UNCHANGED <<schedVars, runVars, mainVars, otherVars>>

\* TestCaseRunner._check(expected, actual, make_outcome)
Check ==
    /\ ppc = "_check"
    /\ checked' = _check(NoFixture, arg_expected.exit_code, arg_expected.text,
                         arg_actual.exit_code, arg_actual.text).outcome
    /\ ppc' = "checked"
    /\ UNCHANGED <<arg_mode, arg_line, formatted, reformatted, arg_expected, arg_actual>>
    /\ UNCHANGED <<schedVars, runVars, mainVars, otherVars>>

NextPure ==
    \/ FormatLine
    \/ FormatAgain
    \/ Check

SpecPure == InitPure /\ [][NextPure]_vars

(***************************************************************************)
(* Fixture discovery applied on its own                                    *)
(***************************************************************************)
\* identifiers that resemble the naming conventions themselves
OddIds == {"expected", "a.b", "x-expected", "expected-output"}
\* the basenames _derive_counterparts is applied to
Basenames ==
    FileNames \cup {"expected-notes", "expected-"}
    \cup UNION { ExpectedNames(id) : id \in OddIds }

\* the function to apply and its argument
InitDisc ==
    /\ SchedIdle
    /\ RunIdle
    /\ PureIdle
    /\ MainIdle
    /\ ConfIdle
    /\ call = NoCall
    /\ dpc \in {"_derive_counterparts", "_detect_test_cases", "_read_env"}
    /\ arg_basename \in IF dpc = "_derive_counterparts" THEN Basenames ELSE {""}
    /\ q_dir \in IF dpc = "_detect_test_cases" THEN Dirs ELSE {<<>>}
    /\ env_file \in IF dpc = "_read_env" THEN EnvFiles ELSE {<<>>}
    /\ filenames = NoFilenames
    /\ test_case_files = Detected(<<>>)
    /\ env = EmptyDict

\* _derive_counterparts(expected_pathname)
DeriveCounterparts ==
    /\ dpc = "_derive_counterparts"
    /\ filenames' = _derive_counterparts(arg_basename)
    /\ dpc' = "derived"
    /\ UNCHANGED <<arg_basename, q_dir, test_case_files, env_file, env>>
    /\ UNCHANGED <<schedVars, runVars, pureVars, mainVars, confVars, call>>

\* CppChecker._detect_test_cases(q_dir)
DetectTestCases ==
    /\ dpc = "_detect_test_cases"
    /\ test_case_files' = _detect_test_cases(q_dir)
    /\ dpc' = "detected"
    /\ UNCHANGED <<arg_basename, filenames, q_dir, env_file, env>>
    /\ UNCHANGED <<schedVars, runVars, pureVars, mainVars, confVars, call>>

\* _read_env(env_file)
ReadEnv ==
    /\ dpc = "_read_env"
    /\ env' = _read_env(env_file)
    /\ dpc' = "env_read"
    /\ UNCHANGED <<arg_basename, filenames, q_dir, test_case_files, env_file>>
    /\ UNCHANGED <<schedVars, runVars, pureVars, mainVars, confVars, call>>

NextDisc ==
    \/ DeriveCounterparts
    \/ DetectTestCases
    \/ ReadEnv

SpecDisc == InitDisc /\ [][NextDisc]_vars

(***************************************************************************)
(* hwsuite.get_config and hwsuite.store_config called in any order         *)
(***************************************************************************)
\* every project root has its configuration file; nothing is cached yet
InitConf ==
    /\ SchedIdle
    /\ RunIdle
    /\ PureIdle
    /\ MainIdle
    /\ DiscIdle
    /\ call = NoCall
    /\ cpc = "ready"
    /\ CFG_CACHE_DISABLED \in BOOLEAN
    /\ _CACHE = EmptyDict
    /\ cfg_files \in [{ join(proj_root, CFG_FILENAME) : proj_root \in ProjRoots } -> ConfigTexts]
    /\ got = NoGot
    /\ stored = [proj_root \in ProjRoots |-> NoneDict]

\* get_config(proj_root) and get_config(proj_root, cfg_pathname)
GetConfig ==
    \E proj_root \in ProjRoots :
    \E cfg_pathname \in {NoneFile, join(proj_root, CFG_FILENAME)} :
        LET r == get_config(_CACHE, cfg_files, CFG_CACHE_DISABLED, proj_root, cfg_pathname) IN
        /\ got' = [proj_root |-> proj_root, config |-> r.config]
        /\ _CACHE' = r.cache
        /\ cpc' = "get_config"
        /\ UNCHANGED <<CFG_CACHE_DISABLED, cfg_files, stored>>
        /\ UNCHANGED <<schedVars, runVars, pureVars, mainVars, discVars, call>>

\* store_config(cfg, proj_root=proj_root); with cfg None the configuration
\* get_config returns is written
StoreConfig ==
    \E proj_root \in ProjRoots, cfg \in Configs \cup {NoneDict} :
        LET r == IF cfg # NoneDict THEN [config |-> cfg, cache |-> _CACHE]
                 ELSE get_config(_CACHE, cfg_files, CFG_CACHE_DISABLED, proj_root, NoneFile)
            cfg_pathname == join(proj_root, CFG_FILENAME)
        IN /\ cfg_files' = [cfg_files EXCEPT ![cfg_pathname] = json_dump(r.config)]
           /\ _CACHE' = r.cache
           /\ stored' = [stored EXCEPT ![proj_root] = r.config]
           /\ got' = NoGot
           /\ cpc' = "store_config"
           /\ UNCHANGED CFG_CACHE_DISABLED
           /\ UNCHANGED <<schedVars, runVars, pureVars, mainVars, discVars, call>>

NextConf ==
    \/ GetConfig
    \/ StoreConfig

SpecConf == InitConf /\ [][NextConf]_vars

(***************************************************************************)
(* ScreenRunnable called method by method, in any order, while the subject *)
(* may end at any time                                                     *)
(***************************************************************************)
\* how a method call ended: the exception it raised, or what it returned
Called(method, raised, value) == [method |-> method, raised |-> raised, value |-> value]

\* the fields of the runner that are not fields of ScreenRunnable
runnerVars == <<cfgVars, rpc, expected_text, tempdir, num_polls, li, pending, exit_code,
                valgrind_rc, hist, result>>

\* ScreenRunnable.__init__ (lines 303-309)
InitSession ==
    /\ SchedIdle
    /\ RunIdle
    /\ PureIdle
    /\ MainIdle
    /\ DiscIdle
    /\ ConfIdle
    /\ call = Called("__init__", "", "None")

\* ScreenRunnable.start(), called once
SessionStart ==
    /\ proc = "none"
    /\ ~started_proc
    /\ proc' = "running"
    /\ started_proc' = TRUE
    /\ call' = Called("start", "", "Popen")
    /\ UNCHANGED <<proc_exit, returncode, completed_proc, num_stuffs, sent, runnerVars>>
    /\ UNCHANGED <<schedVars, pureVars, mainVars, discVars, confVars>>

\* ScreenRunnable.stuff(line, cfg)
SessionStuff ==
    \E line \in FullLines \cup LastLines, mode \in _STUFF_MODES :
        LET formatted_ == format_line([mode |-> mode, eof |-> FALSE], line) IN
        /\ IF ~launched
             THEN /\ call' = Called("stuff", "ScreenStateException", "")
                  /\ UNCHANGED <<returncode, completed_proc, num_stuffs, sent>>
           ELSE IF Poll
             THEN /\ returncode' = proc_exit
                  /\ completed_proc' = proc_exit
                  /\ call' = Called("stuff", "EarlyTerminationException", "")
                  /\ UNCHANGED <<num_stuffs, sent>>
           ELSE IF formatted_.raised # ""
             THEN /\ call' = Called("stuff", formatted_.raised, "")
                  /\ UNCHANGED <<returncode, completed_proc, num_stuffs, sent>>
           ELSE /\ Len(sent) < MaxLines
                /\ \E rc \in {0, 1} :
                     sent' = Append(sent, [kind |-> "line", text |-> formatted_.line, rc |-> rc])
                /\ num_stuffs' = num_stuffs + 1
                /\ call' = Called("stuff", "", "CompletedProcess")
                /\ UNCHANGED <<returncode, completed_proc>>
        /\ UNCHANGED <<proc, proc_exit, started_proc, runnerVars>>
        /\ UNCHANGED <<schedVars, pureVars, mainVars, discVars, confVars>>

\* ScreenRunnable.stuff_eof()
SessionStuffEof ==
    /\ IF ~launched
         THEN /\ call' = Called("stuff_eof", "ScreenStateException", "")
              /\ UNCHANGED <<returncode, completed_proc, sent>>
       ELSE IF Poll
         THEN /\ returncode' = proc_exit
              /\ completed_proc' = proc_exit
              /\ call' = Called("stuff_eof", "ScreenStateException", "")
              /\ UNCHANGED sent
       ELSE /\ Len(sent) < MaxLines
            /\ \E rc \in {0, 1} :
                 sent' = Append(sent, [kind |-> "eof", text |-> <<"^", "D">>, rc |-> rc])
            /\ call' = Called("stuff_eof", "", "CompletedProcess")
            /\ UNCHANGED <<returncode, completed_proc>>
    /\ UNCHANGED <<proc, proc_exit, started_proc, num_stuffs, runnerVars>>
    /\ UNCHANGED <<schedVars, pureVars, mainVars, discVars, confVars>>

\* ScreenRunnable.await_proc(timeout): started_proc.wait returns when the
\* process has ended and raises TimeoutExpired otherwise; with started_proc
\* None the attribute wait does not exist
SessionAwaitProc ==
    /\ IF ~started_proc
         THEN /\ call' = Called("await_proc", "AttributeError", "")
              /\ UNCHANGED <<returncode, completed_proc, started_proc>>
       ELSE IF proc = "exited"
         THEN /\ returncode' = proc_exit
              /\ completed_proc' = proc_exit
              /\ started_proc' = FALSE
              /\ call' = Called("await_proc", "", "None")
       ELSE /\ call' = Called("await_proc", "", "TimeoutExpired")
            /\ UNCHANGED <<returncode, completed_proc, started_proc>>
    /\ UNCHANGED <<proc, proc_exit, num_stuffs, sent, runnerVars>>
    /\ UNCHANGED <<schedVars, pureVars, mainVars, discVars, confVars>>

\* ScreenRunnable.finished(force_check)
SessionFinished ==
    \E force_check \in BOOLEAN :
        /\ IF force_check /\ launched /\ Poll
             THEN /\ returncode' = proc_exit
                  /\ completed_proc' = proc_exit
                  /\ call' = Called("finished", "", "True")
           ELSE IF force_check
             THEN /\ call' = Called("finished", "", "False")
                  /\ UNCHANGED <<returncode, completed_proc>>
           ELSE /\ call' = Called("finished", "", IF finished THEN "True" ELSE "False")
                /\ UNCHANGED <<returncode, completed_proc>>
        /\ UNCHANGED <<proc, proc_exit, started_proc, num_stuffs, sent, runnerVars>>
        /\ UNCHANGED <<schedVars, pureVars, mainVars, discVars, confVars>>

\* ScreenRunnable.quit(): self.launched, a bound method, is always true; the
\* quit command ends with 0, with 1 and "No screen session found", or with
\* another failure
SessionQuit ==
    /\ IF finished
         THEN /\ call' = Called("quit", "", "True")
              /\ UNCHANGED <<returncode, completed_proc>>
       ELSE IF ~started_proc
         THEN /\ call' = Called("quit", "AttributeError", "")
              /\ UNCHANGED <<returncode, completed_proc>>
       ELSE IF Poll
         THEN /\ returncode' = proc_exit
              /\ completed_proc' = proc_exit
              /\ call' = Called("quit", "", "True")
       ELSE /\ \E answer \in {"ok", "no session", "failed"} :
                 call' = Called("quit", "", IF answer = "failed" THEN "False" ELSE "True")
            /\ UNCHANGED <<returncode, completed_proc>>
    /\ UNCHANGED <<proc, proc_exit, started_proc, num_stuffs, sent, runnerVars>>
    /\ UNCHANGED <<schedVars, pureVars, mainVars, discVars, confVars>>

\* ScreenRunnable.kill(): SIGTERM, then SIGKILL while Popen.returncode is
\* still None; it returns Popen.returncode
SessionKill ==
    /\ IF ~started_proc
         THEN /\ call' = Called("kill", "", "None")
              /\ UNCHANGED <<proc, proc_exit, returncode>>
       ELSE /\ call' = Called("kill", "", "returncode")
            /\ IF proc = "running"
                 THEN \E o \in KillOutcomes :
                        /\ proc' = "exited"
                        /\ proc_exit' = o.exit
                        /\ returncode' = IF o.reaped THEN o.exit ELSE returncode
                 ELSE /\ returncode' = proc_exit
                      /\ UNCHANGED <<proc, proc_exit>>
    /\ UNCHANGED <<started_proc, completed_proc, num_stuffs, sent, runnerVars>>
    /\ UNCHANGED <<schedVars, pureVars, mainVars, discVars, confVars>>

NextSession ==
    \/ SessionStart
    \/ SubjectExits
    \/ SessionStuff
    \/ SessionStuffEof
    \/ SessionAwaitProc
    \/ SessionFinished
    \/ SessionQuit
    \/ SessionKill

SpecSession == InitSession /\ [][NextSession]_vars

(***************************************************************************)
(* main and _main: the loop over the main.cpp files, each checked by       *)
(* check_cpp as NextSched models it                                        *)
(***************************************************************************)
_ERR_TEST_CASE_FAILURES == 3
_TEST_CASES_CHOICES == {"auto", "require", "existing"}

\* how main ends: with the code it returns, or with an exception it lets through
Returned(code, cause) == [kind |-> "returned", code |-> code, cause |-> cause]
Raised(exception, cause) == [kind |-> "raised", exception |-> exception, cause |-> cause]

\* the variables of check_cpp between two calls: the configuration stays
CheckCppIdle ==
    /\ mainPc' = "idle"
    /\ i' = 0
    /\ test_case' = 0
    /\ threads' = <<>>
    /\ joined' = 0
    /\ exceeded' = NoThread
    /\ wpc' = [t \in Threads |-> "unstarted"]
    /\ wcase' = [t \in Threads |-> 0]
    /\ wout' = [t \in Threads |-> NoOutcome]
    /\ wraised' = [t \in Threads |-> <<>>]
    /\ concurrer' = concurrency_level
    /\ outcomes_lock' = NoThread
    /\ outcomes' = <<>>
    /\ matching' = {}

\* the arguments main parses (lines 876-892) and the project it is run in
InitMain ==
    /\ RunIdle
    /\ PureIdle
    /\ OtherIdle
    /\ max_test_cases \in {NoneInt, 1}
    /\ timeout \in BOOLEAN
    /\ concurrency_level \in 1 .. MaxLevel
    /\ matching = {}
    /\ mainPc = "idle"
    /\ i = 0
    /\ test_case = 0
    /\ threads = <<>>
    /\ joined = 0
    /\ exceeded = NoThread
    /\ wpc = [t \in Threads |-> "unstarted"]
    /\ wcase = [t \in Threads |-> 0]
    /\ wout = [t \in Threads |-> NoOutcome]
    /\ wraised = [t \in Threads |-> <<>>]
    /\ concurrer = concurrency_level
    /\ outcomes_lock = NoThread
    /\ outcomes = <<>>
    /\ mpc = "begin"
    /\ main_cpps \in 0 .. MaxSuites
    /\ test_cases \in _TEST_CASES_CHOICES
    /\ cpp_i = 0
    /\ total_failures = 0
    /\ status = NoStatus
    /\ ran = [passed |-> 0, failed |-> 0]

\* lines 830-850 with the except clause of main (lines 896-898):
\* find_proj_root and the build raise a MessageworthyException or succeed;
\* with no main.cpp file found _main returns 1
MainBegin ==
    /\ mpc = "begin"
    /\ \E e \in {"", "WhereamiException", "CommandException"} :
         IF e # ""
           THEN status' = Returned(2, "config") /\ mpc' = "exited"
         ELSE IF main_cpps = 0
           THEN status' = Returned(1, "config") /\ mpc' = "exited"
         ELSE mpc' = "loop" /\ UNCHANGED status
    /\ UNCHANGED <<main_cpps, test_cases, cpp_i, total_failures, ran>>
    /\ UNCHANGED <<schedVars, runVars, pureVars, otherVars>>

\* the directories of the main.cpp files: some of the files expected.txt,
\* 1-expected.txt, 1-input.txt and -expected-output.txt, all empty
SuiteDirs ==
    { [f \in S |-> <<>>] :
        S \in SUBSET {"expected.txt", "1-expected.txt", "1-input.txt", "-expected-output.txt"} }

\* one iteration of the loop of _main up to the call of check_cpp (lines
\* 859-868, 783-794): the fixture definitions are missing, are produced or
\* fail to be produced; then check_cpp detects the fixtures of the directory
\* (line 785), and starts with no thread and no outcome; no exception is
\* caught in the loop
CheckCppCall ==
    /\ mpc = "loop"
    /\ cpp_i < main_cpps
    /\ \E defs \in {"missing", "produced", "failed"}, dir \in SuiteDirs :
         IF test_cases = "require" /\ defs = "missing"
           THEN /\ status' = Raised("FileNotFoundError", "config")
                /\ mpc' = "exited"
                /\ UNCHANGED schedVars
         ELSE IF test_cases # "existing" /\ defs = "failed"
           THEN /\ status' = Raised("Exception", "config")
                /\ mpc' = "exited"
                /\ UNCHANGED schedVars
         ELSE IF _detect_test_cases(dir).raised # ""
           THEN /\ status' = Raised(_detect_test_cases(dir).raised, "discovery")
                /\ mpc' = "exited"
                /\ UNCHANGED schedVars
         ELSE /\ mpc' = "check_cpp"
              /\ mainPc' = "dispatch"
              /\ matching' \in SUBSET Fixtures
              /\ UNCHANGED <<status, max_test_cases, timeout, concurrency_level, i, test_case,
                             threads, joined, exceeded, wpc, wcase, wout, wraised, concurrer,
                             outcomes_lock, outcomes>>
    /\ UNCHANGED <<main_cpps, test_cases, cpp_i, total_failures, ran>>
    /\ UNCHANGED <<runVars, pureVars, otherVars>>

\* the fixtures the workers of this check_cpp call ran, passed and failed
RanWith ==
    [passed |-> ran.passed + Cardinality({ t \in 1 .. Len(threads) : wout[t].passed }),
     failed |-> ran.failed + Cardinality({ t \in 1 .. Len(threads) : ~wout[t].passed })]

\* review_outcomes (lines 816-826): the number of outcomes that did not pass
review_outcomes(outcomes_) ==
    Cardinality({ f \in DOMAIN outcomes_ : ~outcomes_[f].passed })

\* check_cpp has returned its outcomes: lines 868-871
ReviewOutcomes ==
    /\ mpc = "check_cpp"
    /\ mainPc = "returned"
    /\ total_failures' = total_failures + review_outcomes(outcomes)
    /\ cpp_i' = cpp_i + 1
    /\ ran' = RanWith
    /\ mpc' = "loop"
    /\ CheckCppIdle
    /\ UNCHANGED <<main_cpps, test_cases, status>>
    /\ UNCHANGED <<max_test_cases, timeout, concurrency_level>>
    /\ UNCHANGED <<runVars, pureVars, otherVars>>

\* the assertion of check_cpp has failed (line 812): the AssertionError
\* leaves check_cpp, _main and main, which catches MessageworthyException only
CheckCppAsserts ==
    /\ mpc = "check_cpp"
    /\ mainPc = "AssertionError"
    /\ status' = Raised("AssertionError", "assert")
    /\ ran' = RanWith
    /\ mpc' = "exited"
    /\ CheckCppIdle
    /\ UNCHANGED <<main_cpps, test_cases, cpp_i, total_failures>>
    /\ UNCHANGED <<max_test_cases, timeout, concurrency_level>>
    /\ UNCHANGED <<runVars, pureVars, otherVars>>

\* the loop of _main is exhausted: line 872
MainReturn ==
    /\ mpc = "loop"
    /\ cpp_i = main_cpps
    /\ status' = Returned(IF total_failures = 0 THEN 0 ELSE _ERR_TEST_CASE_FAILURES, "done")
    /\ mpc' = "exited"
    /\ UNCHANGED <<main_cpps, test_cases, cpp_i, total_failures, ran>>
    /\ UNCHANGED <<schedVars, runVars, pureVars, otherVars>>

NextMain ==
    \/ MainBegin
    \/ CheckCppCall
    \/ ReviewOutcomes
    \/ CheckCppAsserts
    \/ MainReturn
    \/ NextSched

SpecMain == InitMain /\ [][NextMain]_vars

(***************************************************************************)
(* Properties of check_cpp and ConcurrencyManager.perform                  *)
(***************************************************************************)
Range(s) == { s[k] : k \in DOMAIN s }
Started == 1 .. Len(threads)
CheckCppEnded == mainPc \in {"returned", "AssertionError"}
InFlight == { t \in Threads : wpc[t] = "run" }
AllWorkersDone == mainPc # "dispatch" /\ \A t \in Started : wpc[t] = "done"

\* C1: when check_cpp has ended, the outcome map holds exactly one outcome for
\* every fixture for which a thread was started, under that fixture as key and
\* with that fixture in its test_case field, so there are as many outcomes as
\* threads and check_cpp returns without its assertion failing.
C1_OneOutcomePerDispatchedFixture ==
    CheckCppEnded =>
        /\ mainPc = "returned"
        /\ DOMAIN outcomes = Range(threads)
        /\ \A f \in DOMAIN outcomes : outcomes[f].test_case = f
        /\ Cardinality(DOMAIN outcomes) = Len(threads)

\* C2: the number of run_test_case calls in flight never exceeds the
\* concurrency level; every permit is either held by a call in flight or
\* available, and once all workers have ended, whether their case returned or
\* raised, all permits are available again and never more than configured.
C2_BoundedParallelism ==
    /\ Cardinality(InFlight) <= concurrency_level
    /\ concurrer >= 0
    /\ concurrer + Cardinality(InFlight) = concurrency_level
    /\ (AllWorkersDone => concurrer = concurrency_level)

C2_Witness ==
    /\ AllWorkersDone
    /\ Len(threads) > concurrency_level
    /\ \E t \in Started : wraised[t] # <<>>
    /\ \E t \in Started : wraised[t] = <<>>
    /\ concurrer = concurrency_level

\* C3: a worker whose case raised has not died: it holds the failing outcome
\* "unhandled: <kind> <message>" for the fixture it was given, and once it is
\* done that fixture has an outcome in the map, stored by a worker that ran
\* that fixture; when all workers are done every worker's fixture has an
\* outcome, whichever of them raised.
C3_ExceptionBecomesOutcome ==
    /\ \A t \in Threads : wraised[t] # <<>> =>
          /\ wpc[t] \in {"lock", "store", "done"}
          /\ wout[t] = [passed |-> FALSE, test_case |-> wcase[t],
                        message |-> <<"unhandled:", wraised[t][1], wraised[t][2]>>]
    /\ \A t \in Threads : wpc[t] = "done" =>
          /\ wcase[t] \in DOMAIN outcomes
          /\ \E u \in Threads : /\ wpc[u] = "done"
                                 /\ wcase[u] = wcase[t]
                                 /\ outcomes[wcase[t]] = wout[u]
                                 /\ wout[u].test_case = wcase[t]

C3_Witness ==
    /\ mainPc = "returned"
    /\ \E t, u \in Started :
          /\ wraised[t] # <<>>
          /\ wraised[u] = <<>>
          /\ ~outcomes[wcase[t]].passed
          /\ outcomes[wcase[t]].message[1] = "unhandled:"
          /\ outcomes[wcase[u]].passed

\* C12: a worker whose case was rejected by strict formatting holds a failing
\* outcome tagged content-rejected, not the tag of unhandled exceptions.
C12_ContentRejectedTag ==
    \A t \in Threads :
        (wraised[t] # <<>> /\ wraised[t][1] = "StuffContentException") =>
            /\ ~wout[t].passed
            /\ wout[t].message[1] = "content-rejected"
            /\ wout[t].message[1] # "unhandled:"

\* C17: when check_cpp has ended, every thread it started was joined and has
\* ended with its outcome stored; a thread logged as exceeding the timeout is
\* one check_cpp keeps waiting for: until that thread has ended, check_cpp
\* is in the join loop at that thread.
C17_JoinsEveryWorker ==
    /\ CheckCppEnded =>
          /\ joined = Len(threads)
          /\ \A t \in Started : wpc[t] = "done" /\ wcase[t] \in DOMAIN outcomes
    /\ exceeded # NoThread =>
          /\ timeout
          /\ exceeded \in Started
          /\ wpc[exceeded] # "done" => (mainPc = "join" /\ joined = exceeded - 1)

C17_Witness ==
    /\ mainPc = "returned"
    /\ exceeded = 2
    /\ Len(threads) = 2
    /\ DOMAIN outcomes = {1, 2}

\* C18: at most one worker is in the map-write section, the lock is held
\* exactly by the worker that is there and is free when all workers are done;
\* a worker waiting for the lock or holding it holds no permit: when no case
\* is in flight every permit is available.
C18_MapWritesExclusive ==
    /\ Cardinality({ t \in Threads : wpc[t] = "store" }) <= 1
    /\ \A t \in Threads : wpc[t] = "store" <=> outcomes_lock = t
    /\ (\A t \in Threads : wpc[t] # "run") => concurrer = concurrency_level
    /\ AllWorkersDone => outcomes_lock = NoThread

C18_Witness ==
    /\ \E t, u \in Started : /\ wpc[t] = "store"
                             /\ wpc[u] = "lock"
                             /\ outcomes_lock = t
    /\ concurrer = concurrency_level
    /\ concurrency_level = 2

(***************************************************************************)
(* Properties of run_test_case                                             *)
(***************************************************************************)
RunEnded == rpc = "done"
RunReturned == rpc = "done" /\ result.kind = "returned"
FedLines == { k \in DOMAIN sent : sent[k].kind = "line" }
EofSent == \E k \in DOMAIN sent : sent[k].kind = "eof"
IsBadExitCode(message) == message = <<"exit_code">> \/ message[1] = "unexpected exit code"

C5_FeedFailure ==
    \A k \in FedLines : sent[k].rc # 0 =>
        /\ k = Len(sent)
        /\ num_stuffs = k
        /\ (RunEnded => /\ result.kind = "returned"
                        /\ ~result.outcome.passed
                        /\ result.outcome.message = <<"stuff">>
                        /\ result.outcome.message # <<"early">>)

C5_Witness ==
    /\ RunEnded
    /\ Len(input_lines) = 2
    /\ stuff_config.eof
    /\ Len(sent) = 1
    /\ sent[1].rc # 0
    /\ result.outcome.message = <<"stuff">>

\* C6: whenever a case ends with an exit code different from the fixture's
\* expected exit code, in a session or directly, with or without an expected
\* file, the outcome fails as a bad exit code and no text was compared.
C6_BadExitCode ==
    (RunReturned /\ exit_code # NoneInt /\ exit_code # fixture.exit_code) =>
        /\ ~result.outcome.passed
        /\ IsBadExitCode(result.outcome.message)
        /\ ~hist.compared

C8_Memcheck ==
    (RunReturned /\ exit_code # NoneInt) =>
        /\ (exit_code = fixture.exit_code /\ is_applicable(applicability, fixture)) =>
             /\ valgrind_rc # NoneInt
             /\ (valgrind_rc # 0 => /\ ~result.outcome.passed
                                    /\ result.outcome.message = <<"memcheck">>)
        /\ valgrind_rc # NoneInt =>
             (exit_code = fixture.exit_code /\ is_applicable(applicability, fixture))

\* C9: a case whose subject had not terminated within the processing timeout
\* still ends by returning an outcome: run_test_case does not raise.
C9_TimeoutStillReturns ==
    (RunEnded /\ hist.timed_out) => result.kind = "returned"

\* C10: however a case ends, its temporary directory has been removed; if a
\* session was started, termination was awaited, quit was requested, kill was
\* invoked exactly when quit failed (the process then not being finished), and
\* the session process is no longer running.
C10_CleanupAlwaysRuns ==
    /\ (rpc \in {"exit_with", "done"} /\ hist.session) =>
          /\ hist.awaited
          /\ hist.quit # ""
          /\ (hist.quit = "failed" <=> hist.killed)
    /\ RunEnded =>
          /\ tempdir = "removed"
          /\ proc # "running"

C10_Witness ==
    /\ RunEnded
    /\ result.kind = "raised"
    /\ result.exception = "StuffContentException"
    /\ hist.timed_out
    /\ hist.killed
    /\ tempdir = "removed"

(***************************************************************************)
(* Properties of the feed loop                                             *)
(***************************************************************************)
\* the case was ended by StuffContentException
Rejected ==
    \/ pending = Raising("StuffContentException")
    \/ (result.kind = "raised" /\ result.exception = "StuffContentException")
\* the input lines with a special character
SpecialLines == { k \in DOMAIN input_lines : has_special_chars(input_lines[k]) }

\* C11: in strict mode every line sent is the input line itself, character
\* for character, and has no special character; when the feed loop comes to a
\* line with a special character while the session is live,
\* StuffContentException is raised with nothing sent for that line and the
\* feed counter unchanged, so a case with such a line ends either rejected at
\* its first such line or earlier as early termination or feed failure.
C11_StrictRejects ==
    stuff_config.mode = "strict" =>
        /\ \A k \in FedLines : /\ sent[k].text = input_lines[k]
                               /\ ~has_special_chars(sent[k].text)
        /\ Rejected => /\ li + 1 \in SpecialLines
                       /\ num_stuffs = li
                       /\ Len(sent) = li
        /\ (RunEnded /\ hist.session /\ SpecialLines # {}) =>
              LET first == CHOOSE k \in SpecialLines : \A j \in SpecialLines : k <= j
              IN  \/ Rejected /\ li = first - 1
                  \/ /\ result.kind = "returned"
                     /\ result.outcome.message \in { <<"early">>, <<"stuff">> }
                     /\ li < first

C11_Witness ==
    /\ RunEnded
    /\ stuff_config.mode = "strict"
    /\ input_lines = << <<"a", "\n">>, <<"$", "\n">> >>
    /\ Rejected
    /\ num_stuffs = 1
    /\ sent = << [kind |-> "line", text |-> <<"a", "\n">>, rc |-> 0] >>

\* C16: the k-th line sent is the formatted k-th line of the input file, so
\* lines go out in file order with none skipped or repeated; every line sent
\* but the last returned status 0; the feed counter and the count of
\* successful sends follow the lines sent; a pause preceded every send; and
\* a case that reaches the exit-code check has sent every line.
C16_InOrderFeed ==
    LET n == Cardinality(FedLines) IN
    /\ FedLines = 1 .. n
    /\ n <= Len(input_lines)
    /\ \A k \in FedLines : sent[k].text = format_line(stuff_config, input_lines[k]).line
    /\ \A k \in FedLines : k < n => sent[k].rc = 0
    /\ li = Cardinality({ k \in FedLines : sent[k].rc = 0 })
    /\ num_stuffs = n
    /\ hist.pauses >= n
    /\ hist.pauses <= n + 1
    /\ (RunReturned /\ hist.session /\ exit_code # NoneInt) => n = Len(input_lines)

C16_Witness ==
    /\ RunReturned
    /\ exit_code # NoneInt
    /\ input_lines = << <<"$", "\n">>, <<"a">> >>
    /\ stuff_config.mode = "auto"
    /\ Len(sent) = 2
    /\ sent[1].text = <<"\\", "$", "\n">>
    /\ sent[2].text = <<"a", "\n">>
    /\ hist.pauses = 2

\* C19: once run_test_case has decided, a session was started for every
\* fixture under the policy always, for none under never, and under auto
\* exactly for the fixtures with an input file; without a session no line is
\* sent, no feed pause is made and the exit code comes from the direct run.
C19_SessionPolicy ==
    rpc # "begin" =>
        /\ require_screen = "always" => hist.session
        /\ require_screen = "never" => ~hist.session
        /\ require_screen = "auto" => (hist.session <=> fixture.input_file)
        /\ ~hist.session => /\ sent = <<>>
                            /\ num_stuffs = 0
                            /\ hist.pauses = 0
                            /\ ~started_proc
                            /\ rpc \in {"direct", "valgrind", "done"}

C19_Witness ==
    /\ RunReturned
    /\ require_screen = "never"
    /\ fixture.input_file
    /\ Len(input_lines) = 2
    /\ ~hist.session
    /\ sent = <<>>

(***************************************************************************)
(* Properties of format_line and _check                                    *)
(***************************************************************************)
EndsWithNewline(l) == l # <<>> /\ l[Len(l)] = "\n"
OneTrailingNewline(l) == EndsWithNewline(l) /\ (Len(l) > 1 => l[Len(l) - 1] # "\n")
HasTab(t) == \E k \in DOMAIN t : t[k] = "\t"
AutoFormatted == arg_mode = "auto" /\ ppc \in {"formatted", "reformatted"}

\* C13 as claimed: in auto mode the formatted line ends with exactly one
\* newline, is the line itself when the line ends with a newline and the line
\* with a newline appended when not, and formatting the formatted line
\* returns it unchanged.
C13_AutoNewlineIdempotent ==
    AutoFormatted =>
        /\ formatted.raised = ""
        /\ OneTrailingNewline(formatted.line)
        /\ formatted.line = IF EndsWithNewline(arg_line) THEN arg_line
                            ELSE Append(arg_line, "\n")
        /\ (ppc = "reformatted" => reformatted = formatted)

\* C13 as amended: in auto mode the formatted line ends with exactly one
\* newline, appended only when the line lacks it; a line without special
\* characters is otherwise unchanged and formatting it again changes nothing;
\* a line with special characters is changed: no ^ or # is left, every $ has
\* a backslash before it, and formatting it again changes it again exactly
\* when it has a $.
C13_AutoNewlineEscapes ==
    AutoFormatted =>
        /\ formatted.raised = ""
        /\ OneTrailingNewline(formatted.line)
        /\ IF ~has_special_chars(arg_line)
             THEN /\ formatted.line = IF EndsWithNewline(arg_line) THEN arg_line
                                      ELSE Append(arg_line, "\n")
                  /\ (ppc = "reformatted" => reformatted = formatted)
             ELSE /\ Len(formatted.line) > Len(arg_line)
                  /\ \A k \in DOMAIN formatted.line :
                        /\ formatted.line[k] \notin {"^", "#"}
                        /\ formatted.line[k] = "$" => (k > 1 /\ formatted.line[k - 1] = "\\")
                  /\ (ppc = "reformatted" /\ reformatted.raised = "" /\ formatted.line # <<>>) =>
                        (\E k \in DOMAIN formatted.line : formatted.line[k] = "$")
                            <=> reformatted # formatted

C13_Witness ==
    /\ ppc = "reformatted"
    /\ arg_mode = "auto"
    /\ arg_line = <<"$", "\n">>
    /\ formatted.line = <<"\\", "$", "\n">>
    /\ reformatted.line = <<"\\", "\\", "$", "\n">>

\* C14: when the expected text has a tab and the captured text is the expected
\* text with its tabs expanded to 8-column stops, _check returns a passing
\* outcome with message ok.
C14_TabExpandedPasses ==
    (/\ ppc = "checked"
     /\ arg_expected.text # NoneText
     /\ HasTab(arg_expected.text)
     /\ arg_actual.text = expandtabs(arg_expected.text)) =>
        /\ checked.passed
        /\ checked.message = <<"ok">>

C14_Witness ==
    /\ ppc = "checked"
    /\ arg_expected.text = <<"a", "\t">>
    /\ arg_actual.text = <<"a", " ", " ", " ", " ", " ", " ", " ">>
    /\ checked.passed

\* C15: when there is an expected text, _check passes exactly when the
\* captured text equals it or, the expected text having a tab, its
\* tab-expanded form; every other captured text gives diff, and the outcome
\* carries the captured text as it was captured.
C15_ComparisonExact ==
    (ppc = "checked" /\ arg_expected.text # NoneText) =>
        /\ checked.passed <=>
              \/ arg_actual.text = arg_expected.text
              \/ (HasTab(arg_expected.text) /\ arg_actual.text = expandtabs(arg_expected.text))
        /\ checked.message = IF checked.passed THEN <<"ok">> ELSE <<"diff">>
        /\ checked.actual_text = arg_actual.text

C15_Witness ==
    /\ ppc = "checked"
    /\ arg_expected.text = <<"a", " ", " ", " ", " ", " ", " ", " ">>
    /\ arg_actual.text = <<"a", "\t">>
    /\ ~checked.passed
    /\ checked.message = <<"diff">>

(***************************************************************************)
(* Properties of main                                                      *)
(***************************************************************************)
\* the exit status of the process: the code main returned, or 1 when an
\* exception left main
ExitStatus == IF status.kind = "returned" THEN status.code ELSE 1

\* C20: when main has ended on a configuration or discovery error the exit
\* status is neither 0 nor the fixture-failure code; otherwise it is 0 exactly
\* when every fixture that was run passed, and the fixture-failure code when
\* one of them failed.
C20_ExitCode ==
    mpc = "exited" =>
        IF status.cause \in {"config", "discovery"}
          THEN ExitStatus \notin {0, _ERR_TEST_CASE_FAILURES}
          ELSE /\ ExitStatus = 0 <=> ran.failed = 0
               /\ ran.failed > 0 => ExitStatus = _ERR_TEST_CASE_FAILURES

\* C21: a discovery error raised while one suite is prepared ends that suite
\* only: main goes on to the remaining main.cpp files and returns.
C21_DiscoveryErrorAbortsSuiteOnly ==
    (mpc = "exited" /\ status.cause = "discovery") =>
        /\ status.kind = "returned"
        /\ cpp_i = main_cpps

(***************************************************************************)
(* Properties of fixture discovery                                         *)
(***************************************************************************)
\* the files of the scanned directory that detection takes as expected files
ExpectedFilesFound == { f \in DOMAIN q_dir : is_expected_file(f) }

\* C22: detection on a directory without any expected-output file returns
\* exactly one fixture, which has no input file, no expected file and the
\* expected exit code 0.
C22_NoExpectedFileOneFixture ==
    (dpc = "detected" /\ ExpectedFilesFound = {}) =>
        /\ test_case_files.raised = ""
        /\ Len(test_case_files.cases) = 1
        /\ test_case_files.cases[1].input_file = NoneFile
        /\ test_case_files.cases[1].expected_file = NoneFile
        /\ test_case_files.cases[1].exit_code = 0

\* a directory that holds files, none of them an expected file, was scanned
C22_Witness ==
    /\ dpc = "detected"
    /\ ExpectedFilesFound = {}
    /\ {"input.txt", "notes.txt"} \subseteq DOMAIN q_dir
    /\ Len(test_case_files.cases) = 1

\* C23: detection returns one fixture per expected-output file found; a
\* fixture has an input file, an environment or arguments only if the
\* sibling file it is read from exists, so that a fixture without siblings
\* has input_file None, env None and args ().
C23_OneFixturePerExpectedFile ==
    (dpc = "detected" /\ ExpectedFilesFound # {}) =>
        /\ test_case_files.raised = ""
        /\ Len(test_case_files.cases) = Cardinality(ExpectedFilesFound)
        /\ \A f \in ExpectedFilesFound :
             \E k \in 1 .. Len(test_case_files.cases) :
                LET tc == test_case_files.cases[k]
                    names == _derive_counterparts(f)
                IN /\ tc.expected_file = f
                   /\ tc.input_file # NoneFile <=> exists(q_dir, names.input)
                   /\ tc.env # NoneEnv <=> exists(q_dir, names.env)
                   /\ ~exists(q_dir, names.args) => tc.args = <<>>

\* the identifiers a fixture file name is built from
AllIds == Ids \cup OddIds

\* C24: _derive_counterparts maps expected.txt to input.txt, env.txt and
\* args.txt, and maps <id>-expected.txt and <id>-expected-output.txt to
\* <id>-input.txt, <id>-env.txt and <id>-args.txt with identifier <id>.
C24_SuffixConventions ==
    dpc = "derived" =>
        /\ arg_basename = "expected.txt" =>
             filenames = TestCaseFilenameSet("", "expected.txt", "input.txt", "env.txt",
                                             "args.txt")
        /\ \A id \in AllIds :
             arg_basename \in {id \o "-expected.txt", id \o "-expected-output.txt"} =>
                filenames = TestCaseFilenameSet(id, arg_basename, id \o "-input.txt",
                                                id \o "-env.txt", id \o "-args.txt")

\* the siblings of a name <id>-expected-output.txt were derived, for an
\* identifier that itself ends like an expected file name
C24_Witness ==
    /\ dpc = "derived"
    /\ arg_basename = "x-expected-expected-output.txt"
    /\ filenames.identifier = "x-expected"
    /\ filenames.input = "x-expected-input.txt"

\* C25: _derive_counterparts maps the deprecated name expected-output<id>.txt
\* to input<id>.txt, env<id>.txt and args<id>.txt.
C25_DeprecatedConvention ==
    dpc = "derived" =>
        \A id \in AllIds :
            arg_basename = "expected-output" \o id \o ".txt" =>
                /\ filenames.raised = ""
                /\ filenames.input = "input" \o id \o ".txt"
                /\ filenames.env = "env" \o id \o ".txt"
                /\ filenames.args = "args" \o id \o ".txt"

\* the naming patterns for an expected file: expected.txt, <id>-expected.txt,
\* <id>-expected-output.txt and expected-output<id>.txt
Recognized(basename) ==
    \/ basename = "expected.txt"
    \/ endswith(basename, "-expected.txt")
    \/ endswith(basename, "-expected-output.txt")
    \/ startswith(basename, "expected-output") /\ endswith(basename, ".txt")

\* C26: _derive_counterparts raises for every basename that matches none of
\* the naming patterns, and it accepts every file that detection takes as an
\* expected file.
C26_RejectsUnrecognizedOnly ==
    dpc = "derived" =>
        /\ ~Recognized(arg_basename) => filenames.raised # ""
        /\ is_expected_file(arg_basename) => filenames.raised = ""

\* the text of a line of the env file without its line end
Content(l) == IF l # <<>> /\ l[Len(l)] = "\n" THEN SubSeq(l, 1, Len(l) - 1) ELSE l
HasEq(l) == \E k \in 1 .. Len(l) : l[k] = "="
FirstEq(l) == CHOOSE k \in 1 .. Len(l) : l[k] = "=" /\ \A j \in 1 .. k - 1 : l[j] # "="
\* the key and the value a line stands for
Key(l) == IF HasEq(l) THEN SubSeq(Content(l), 1, FirstEq(l) - 1) ELSE Content(l)
Value(l) ==
    IF HasEq(l) THEN SubSeq(Content(l), FirstEq(l) + 1, Len(Content(l))) ELSE <<>>
\* the line adds a variable: it is not empty
Defines(l) == Content(l) # <<>>

\* C27: _read_env maps each line to one variable: the text before the first
\* "=" is the key and all that follows it the value, a line without "=" that
\* is not empty is a key with the empty value, and an empty line adds
\* nothing; of two lines with the same key the later one holds.
C27_EnvLines ==
    dpc = "env_read" =>
        /\ \A key \in DOMAIN env :
             \E k \in 1 .. Len(env_file) : Defines(env_file[k]) /\ Key(env_file[k]) = key
        /\ \A k \in 1 .. Len(env_file) :
             Defines(env_file[k]) =>
                /\ Key(env_file[k]) \in DOMAIN env
                /\ (\A j \in k + 1 .. Len(env_file) :
                        ~(Defines(env_file[j]) /\ Key(env_file[j]) = Key(env_file[k])))
                   => env[Key(env_file[k])] = Value(env_file[k])

\* an env file was read that has an empty line and a line with two "="
C27_Witness ==
    /\ dpc = "env_read"
    /\ env_file = << <<"\n">>, <<"a", "=", "=">> >>
    /\ DOMAIN env = { <<"a">> }
    /\ env[<<"a">>] = <<"=">>

(***************************************************************************)
(* Properties of the project configuration                                 *)
(***************************************************************************)
\* C28: once store_config has written a configuration for a project root,
\* get_config for that root returns the configuration written last, not one
\* that was cached before.
C28_GetAfterStore ==
    (cpc = "get_config" /\ stored[got.proj_root] # NoneDict) =>
        got.config = stored[got.proj_root]

\* with the cache in use and a configuration cached, get_config returned the
\* configuration written for a root that had another one before
C28_Witness ==
    /\ cpc = "get_config"
    /\ ~CFG_CACHE_DISABLED
    /\ stored[got.proj_root] = [key \in {"stage_prefix"} |-> "y"]
    /\ got.config = [key \in {"stage_prefix"} |-> "y"]
    /\ \E other \in ProjRoots :
         /\ other # got.proj_root
         /\ join(other, CFG_FILENAME) \in DOMAIN _CACHE
         /\ stored[other] # NoneDict
         /\ _CACHE[join(other, CFG_FILENAME)] # stored[other]

(***************************************************************************)
(* Properties of the screen session called method by method                *)
(***************************************************************************)
\* the state of the session as its fields tell it
SessionState ==
    IF finished THEN "terminated" ELSE IF started_proc THEN "running" ELSE "not-started"

\* C29: the state of a session only moves forward, from not-started to
\* running on start and from running to terminated when a wait or a poll
\* finds the process ended; a recorded termination is never cleared;
\* launched() and finished() are never both true; and after await_proc has
\* timed out the session is still running, with no completion recorded.
C29_SessionForward ==
    /\ [](~(launched /\ finished))
    /\ []((call.method = "await_proc" /\ call.value = "TimeoutExpired") =>
            (SessionState = "running" /\ completed_proc = NoneInt))
    /\ [][/\ completed_proc # NoneInt => completed_proc' = completed_proc
          /\ SessionState' # SessionState =>
               \/ /\ SessionState = "not-started"
                  /\ SessionState' = "running"
                  /\ call'.method = "start"
               \/ /\ SessionState = "running"
                  /\ SessionState' = "terminated"
                  /\ proc = "exited"
                  /\ call'.method \in {"await_proc", "stuff", "stuff_eof", "finished", "quit"}]_vars

\* a poll made by finished(force_check=True) has recorded the termination:
\* started_proc is still set and launched() is false
C29_Witness ==
    /\ call = Called("finished", "", "True")
    /\ started_proc
    /\ completed_proc # NoneInt
    /\ ~launched

\* C30: a feed on a started session whose process has ended raises
\* EarlyTerminationException and sends nothing, also when an earlier call has
\* already recorded the end; a feed on a session never started raises
\* ScreenStateException and sends nothing.
C30_FeedAfterExit ==
    [][(call'.method = "stuff" /\ proc' = proc) =>
         /\ proc = "exited" =>
              call'.raised = "EarlyTerminationException" /\ sent' = sent
         /\ proc = "none" =>
              call'.raised = "ScreenStateException" /\ sent' = sent]_vars


(***************************************************************************)
(* Properties of the end of the feed and of the session teardown           *)
(***************************************************************************)
EofsSent == { k \in DOMAIN sent : sent[k].kind = "eof" }
\* the feed loop has been left in a case run in a session
FeedOver == hist.session /\ rpc \in {"finally", "quit", "kill", "exit_with", "done"}
\* every input line was sent and its send command ended with status 0
AllLinesFed ==
    /\ Cardinality(FedLines) = Len(input_lines)
    /\ \A k \in FedLines : sent[k].rc = 0

C32_KillEscalates ==
    /\ (hist.signals # <<>> => hist.signals[1] = "SIGTERM")
    /\ ("SIGKILL" \in Range(hist.signals) => proc_exit # SigTerm)
    /\ (hist.killed => (hist.quit = "failed" /\ completed_proc = NoneInt))
    /\ (hist.quit \in {"finished", "polled", "no session", "ok"} => ~hist.killed)

\* C33: the pre-feed wait reads the log at most `limit` times and not at all
\* when the limit is 0; a read that finds non-whitespace text ends the wait;
\* nothing is fed and no feed pause is made while the wait lasts; the wait
\* ends only by going on to the feed loop at its first line, whether or not
\* output was seen; and the wait always ends.
C33_PreFeedWait ==
    /\ [](/\ hist.reads <= poll_limit
          /\ num_polls <= hist.reads
          /\ (poll_limit = 0 => hist.reads = 0)
          /\ (hist.output => rpc # "await_output")
          /\ (rpc = "await_output" => (sent = <<>> /\ hist.pauses = 0 /\ li = 0)))
    /\ [][(rpc = "await_output" /\ rpc' # "await_output") =>
             (rpc' = "feed" /\ li' = 0 /\ pending' = NoPending /\ sent' = <<>>)]_vars
    /\ (rpc = "await_output" ~> rpc = "feed")

C33_Witness ==
    /\ hist.session
    /\ poll_limit = MaxPollLimit
    /\ hist.reads = poll_limit
    /\ num_polls = poll_limit
    /\ ~hist.output
    /\ Len(sent) >= 1
    /\ sent[1].kind = "line"
    /\ sent[1].rc = 0

(***************************************************************************)
(* Properties of the dispatch loop and of fixture ordering                 *)
(***************************************************************************)
Min(a, b) == IF a <= b THEN a ELSE b
DispatchOver == mainPc \in {"join", "returned", "AssertionError"}

\* C34: once the dispatch loop is over, a thread was started for exactly
\* min(N, number of fixtures the filter accepts) fixtures (all of them
\* without a limit), every one of them accepted by the filter.
C34_LimitCountsMatches ==
    DispatchOver =>
        /\ Range(threads) \subseteq matching
        /\ Len(threads) = IF max_test_cases = NoneInt
                            THEN Cardinality(matching)
                            ELSE Min(max_test_cases, Cardinality(matching))

\* the identifier of a detected fixture
IdentifierOf(tc) ==
    IF tc.expected_file = NoneFile THEN ""
    ELSE _derive_counterparts(tc.expected_file).identifier

\* C35: detection never ends with the TypeError of sorted(), whichever
\* fixtures have an input file, and the list it returns is in ascending
\* order of fixture identifier.
C35_OrderedByIdentifier ==
    dpc = "detected" =>
        /\ test_case_files.raised # "TypeError"
        /\ \A j, k \in 1 .. Len(test_case_files.cases) :
              j < k => ~str_lt(IdentifierOf(test_case_files.cases[k]),
                               IdentifierOf(test_case_files.cases[j]))

\* C36: with concurrency level 1 at most one case is in flight at any time;
\* and, every thread being scheduled and every case ending, each worker
\* that waits at the admission gate is admitted, each worker that waits for
\* the map lock gets it, each started worker ends with its outcome stored,
\* and check_cpp returns.
C36_NoDeadlock ==
    /\ [](concurrency_level = 1 => Cardinality(InFlight) <= 1)
    /\ \A t \in Threads :
          /\ (wpc[t] = "acquire" ~> wpc[t] = "run")
          /\ (wpc[t] = "lock" ~> wpc[t] = "store")
          /\ (wpc[t] = "call" ~> (wpc[t] = "done" /\ wcase[t] \in DOMAIN outcomes))
    /\ <>(mainPc = "returned")

(***************************************************************************)
(* Properties of the outcomes of run_test_case                             *)
(***************************************************************************)
\* the outcomes run_test_case has built: the one returned, and the one a
\* return statement inside the try block holds while the finally clause runs
ProducedOutcomes ==
    (IF RunReturned THEN {result.outcome} ELSE {})
      \cup (IF pending.kind = "return" THEN {pending.outcome} ELSE {})
Classifications == {"ok", "early", "stuff", "exit code", "memcheck", "diff"}
\* the message of an outcome states the classification c
Classified(message, c) ==
    IF c = "exit code" THEN IsBadExitCode(message) ELSE message = <<c>>

\* C37: every outcome run_test_case builds carries exactly one of the
\* classifications, and it passes exactly when that classification is ok.
C37_PassedIffOk ==
    \A o \in ProducedOutcomes :
        /\ Cardinality({ c \in Classifications : Classified(o.message, c) }) = 1
        /\ o.passed <=> Classified(o.message, "ok")

C37_Witness ==
    /\ RunReturned
    /\ hist.session
    /\ hist.compared
    /\ Classified(result.outcome.message, "diff")
    /\ ~result.outcome.passed
    /\ result.outcome.actual_text # result.outcome.expected_text

\* the case ended after every line of a non-empty input was fed, with
\* end-of-input configured and the subject found exited at that step, so
\* that no end-of-input signal went out
ExitedBeforeEof ==
    /\ RunEnded
    /\ hist.session
    /\ stuff_config.eof
    /\ Len(input_lines) >= 1
    /\ li = Len(input_lines)
    /\ AllLinesFed
    /\ EofsSent = {}

\* C38: a case whose subject exited after the last line was fed and before
\* the end-of-input step ends by returning an outcome that rests on the
\* subject's exit code and on the comparison of _check: one of ok, exit
\* code and diff.
C38_ExitBeforeEofStillJudged ==
    ExitedBeforeEof =>
        /\ result.kind = "returned"
        /\ exit_code = proc_exit
        /\ \E c \in {"ok", "exit code", "diff"} : Classified(result.outcome.message, c)

\* C39: the expected_text of every outcome run_test_case builds is the text
\* read from the expected file, and None for a fixture without expected
\* file, whether the outcome passes or fails and whether or not the text
\* holds a tab.
C39_ExpectedTextAsRead ==
    \A o \in ProducedOutcomes :
        /\ o.expected_text = expected_text
        /\ (~fixture.expected_file => o.expected_text = NoneText)

====
